---- MODULE Spec2Model ----
(***************************************************************************)
(* Named-range formula compiler and comment tag codec of the Epifai Excel  *)
(* add-in (client/src/components/RangePicker.tsx, NameEditor.tsx and       *)
(* client/src/lib/excel-names.ts).                                         *)
(*                                                                         *)
(* A JavaScript string is modelled as a sequence of one-character strings, *)
(* so that template literals, regular expressions, split/join and parseInt *)
(* are computed character by character as the code computes them.          *)
(***************************************************************************)
EXTENDS Integers, Sequences, FiniteSets, TLC

(***************************************************************************)
(* Bounds of the model.                                                    *)
(***************************************************************************)
\* The editor's numeric inputs (skip rows, skip columns, fixed columns) are
\* stepped up to this value.
MaxStep == 3
\* Row and column headers of the picker's preview are toggled up to this index.
MaxToggleIdx == 2
\* Overflow counts of the maps handed to the overflow codec run up to this
\* value.
MaxCount == 1
\* The skip counts are taken of selections of up to this many rows or columns.
MaxTotal == 5
\* reads of the host selection by the polling loop
MaxPolls == 3

(***************************************************************************)
(* JavaScript string primitives.                                           *)
(***************************************************************************)
UpperAZ == <<"A","B","C","D","E","F","G","H","I","J","K","L","M",
             "N","O","P","Q","R","S","T","U","V","W","X","Y","Z">>
LowerAZ == <<"a","b","c","d","e","f","g","h","i","j","k","l","m",
             "n","o","p","q","r","s","t","u","v","w","x","y","z">>
DigitChars == <<"0","1","2","3","4","5","6","7","8","9">>

UpperSet == {UpperAZ[i] : i \in 1..26}
LowerSet == {LowerAZ[i] : i \in 1..26}
LetterSet == UpperSet \cup LowerSet
DigitSet == {DigitChars[i] : i \in 1..10}

\* Math.min / Math.max
MathMin(a, b) == IF a < b THEN a ELSE b
MathMax(a, b) == IF a > b THEN a ELSE b

\* String.prototype.charCodeAt for the letters (the only characters the
\* column arithmetic reads)
charCode(c) ==
  IF c \in UpperSet THEN 64 + (CHOOSE i \in 1..26 : UpperAZ[i] = c)
  ELSE 96 + (CHOOSE i \in 1..26 : LowerAZ[i] = c)

\* String.fromCharCode for 65..90
fromCharCode(n) == UpperAZ[n - 64]

\* String.prototype.toUpperCase
toUpperCase(s) ==
  [i \in 1..Len(s) |->
     IF s[i] \in LowerSet THEN UpperAZ[CHOOSE k \in 1..26 : LowerAZ[k] = s[i]]
     ELSE s[i]]

\* `${n}` for a non-negative integer n
RECURSIVE numStr(_)
numStr(n) ==
  IF n < 10 THEN <<DigitChars[n + 1]>>
  ELSE numStr(n \div 10) \o <<DigitChars[(n % 10) + 1]>>

\* the value NaN (no count of the model is negative)
NaN == 0 - 1

\* end of the longest run of characters of cls that starts at i (i-1: none)
RECURSIVE runEnd(_, _, _)
runEnd(s, i, cls) ==
  IF i <= Len(s) /\ s[i] \in cls THEN runEnd(s, i + 1, cls) ELSE i - 1

\* end of the longest run of characters outside excl that starts at i
RECURSIVE runEndNot(_, _, _)
runEndNot(s, i, excl) ==
  IF i <= Len(s) /\ s[i] \notin excl THEN runEndNot(s, i + 1, excl) ELSE i - 1

RECURSIVE digitsValue(_, _)
digitsValue(s, acc) ==
  IF s = <<>> THEN acc
  ELSE digitsValue(Tail(s), acc * 10 + ((CHOOSE i \in 1..10 : DigitChars[i] = Head(s)) - 1))

\* parseInt(s, 10) of a string without sign or leading blanks: the value of
\* its leading digits, NaN when it has none
parseInt(s) ==
  LET e == runEnd(s, 1, DigitSet)
  IN IF e = 0 THEN NaN ELSE digitsValue(SubSeq(s, 1, e), 0)

\* does p occur in s at position i
startsWithAt(s, i, p) ==
  /\ i >= 1
  /\ i + Len(p) - 1 <= Len(s)
  /\ (Len(p) = 0 \/ s[i] = p[1])
  /\ SubSeq(s, i, i + Len(p) - 1) = p

\* String.prototype.indexOf, 1-based (0: no occurrence)
indexOf(s, p) ==
  LET I == {i \in 1..Len(s) : startsWithAt(s, i, p)}
  IN IF I = {} THEN 0 ELSE CHOOSE m \in I : \A o \in I : m <= o

\* String.prototype.lastIndexOf, 1-based (0: no occurrence)
lastIndexOf(s, p) ==
  LET I == {i \in 1..Len(s) : startsWithAt(s, i, p)}
  IN IF I = {} THEN 0 ELSE CHOOSE m \in I : \A o \in I : m >= o

\* String.prototype.includes
includes(s, p) == indexOf(s, p) # 0

\* ref.replace(/^=/, "")
stripLeadingEq(s) == IF Len(s) > 0 /\ s[1] = "=" THEN Tail(s) ELSE s

\* String.prototype.trim (blanks are the only white space of the model)
RECURSIVE trimStart(_)
trimStart(s) == IF Len(s) > 0 /\ s[1] = " " THEN trimStart(Tail(s)) ELSE s
RECURSIVE trimEnd(_)
trimEnd(s) ==
  IF Len(s) > 0 /\ s[Len(s)] = " " THEN trimEnd(SubSeq(s, 1, Len(s) - 1)) ELSE s
trim(s) == trimEnd(trimStart(s))

\* Array.prototype.join
RECURSIVE join(_, _)
join(parts, sep) ==
  IF parts = <<>> THEN <<>>
  ELSE IF Len(parts) = 1 THEN parts[1]
  ELSE parts[1] \o sep \o join(Tail(parts), sep)

\* String.prototype.split on a one-character separator
RECURSIVE split(_, _)
split(s, sep) ==
  LET i == indexOf(s, <<sep>>)
  IN IF i = 0 THEN <<s>>
     ELSE <<SubSeq(s, 1, i - 1)>> \o split(SubSeq(s, i + 1, Len(s)), sep)

\* Array.prototype.filter(Boolean) over strings: drops the empty ones
filterNonEmpty(parts) == SelectSeq(parts, LAMBDA p : p # <<>>)

(***************************************************************************)
(* Address algebra.                                                        *)
(***************************************************************************)
\* the host's column and row ceilings, as the compilers write them
MaxColumn == 16384
MaxRowNum == 1048576
\* the lookahead of the count windows
BUFFER == 20

RECURSIVE colToNumFrom(_, _, _)
colToNumFrom(col, i, num) ==
  IF i > Len(col) THEN num
  ELSE colToNumFrom(col, i + 1, num * 26 + (charCode(col[i]) - 64))

\* colToNum reading the last letter alone
colToNumOfLastLetter(col) == charCode(col[Len(col)]) - 64

colToNum(col) == colToNumFrom(col, 1, 0)

RECURSIVE numToColFrom(_, _)
numToColFrom(num, col) ==
  IF num > 0
  THEN LET rem == (num - 1) % 26
       IN numToColFrom((num - 1) \div 26, <<fromCharCode(65 + rem)>> \o col)
  ELSE col

numToCol(num) == numToColFrom(num, <<>>)

\* /^[A-Za-z_][A-Za-z0-9_]*$/.test(name)
isPlainSheetName(name) ==
  /\ Len(name) > 0
  /\ name[1] \in LetterSet \cup {"_"}
  /\ \A i \in 2..Len(name) : name[i] \in LetterSet \cup DigitSet \cup {"_"}

\* name.replace(/'/g, "''")
RECURSIVE doubleQuotes(_)
doubleQuotes(name) ==
  IF name = <<>> THEN <<>>
  ELSE (IF Head(name) = "'" THEN <<"'", "'">> ELSE <<Head(name)>>)
       \o doubleQuotes(Tail(name))

quoteSheet(name) ==
  IF name = <<>> THEN <<>>
  ELSE IF isPlainSheetName(name) THEN name
  ELSE <<"'">> \o doubleQuotes(name) \o <<"'">>

sheetPrefix(sheet) ==
  IF sheet = <<>> THEN <<>> ELSE quoteSheet(sheet) \o <<"!">>

(***************************************************************************)
(* Name editor (NameEditor.tsx): reference parsing and the dynamic and     *)
(* hybrid compilers.  A function of the source whose body reads a local    *)
(* several times is written as a chain of operators, each local being the  *)
(* parameter of the next operator.                                         *)
(***************************************************************************)
L_OFFSET == <<"O","F","F","S","E","T","(">>
L_INDIRECT == <<"I","N","D","I","R","E","C","T","(">>
L_INDEX == <<"I","N","D","E","X","(">>
L_COUNTA == <<"C","O","U","N","T","A","(">>

\* \$? at position p: the position after it
skipDollar(s, p) == IF p <= Len(s) /\ s[p] = "$" THEN p + 1 ELSE p

\* [letters]+ from a to ce, then \$? leading to b, then \d+ from b to re
cellMatchResult(s, p, a, ce, b, re) ==
  IF ce >= a /\ re >= b
  THEN [ok |-> TRUE, col |-> SubSeq(s, a, ce), row |-> SubSeq(s, b, re),
        next |-> re + 1]
  ELSE [ok |-> FALSE, col |-> <<>>, row |-> <<>>, next |-> p]

cellMatchRow(s, p, a, ce, b) == cellMatchResult(s, p, a, ce, b, runEnd(s, b, DigitSet))

cellMatchCol(s, p, a, ce) == cellMatchRow(s, p, a, ce, skipDollar(s, ce + 1))

\* (\$?)([letters]+)(\$?)(\d+) matched at position p of s, for the letter
\* class of the regular expression
matchCell(s, p, letters) ==
  cellMatchCol(s, p, skipDollar(s, p), runEnd(s, skipDollar(s, p), letters))

\* the sheet part, given the position a after the optional quote, the end e
\* of [^'!]+ and the position q after the second optional quote
sheetMatchResult(s, a, e, q) ==
  IF e >= a /\ q <= Len(s) /\ s[q] = "!"
  THEN [ok |-> TRUE, sheet |-> SubSeq(s, a, e), next |-> q + 1]
  ELSE [ok |-> FALSE, sheet |-> <<>>, next |-> 1]

sheetMatchName(s, a, e) ==
  sheetMatchResult(s, a, e, IF e + 1 <= Len(s) /\ s[e + 1] = "'" THEN e + 2 ELSE e + 1)

sheetMatchFrom(s, a) == sheetMatchName(s, a, runEndNot(s, a, {"'", "!"}))

\* (?:'?([^'!]+)'?!)? matched at the start of s
matchSheetPart(s) == sheetMatchFrom(s, IF Len(s) >= 1 /\ s[1] = "'" THEN 2 ELSE 1)

cellPairResult(s, c1, c2) ==
  IF /\ c1.ok
     /\ c1.next <= Len(s)
     /\ s[c1.next] = ":"
     /\ c2.ok
     /\ c2.next = Len(s) + 1
  THEN [ok |-> TRUE, startCol |-> c1.col, startRow |-> c1.row,
        endCol |-> c2.col, endRow |-> c2.row]
  ELSE [ok |-> FALSE]

cellPairFrom(s, c1, letters) ==
  cellPairResult(s, c1, matchCell(s, c1.next + 1, letters))

\* cell ':' cell '$' matched from position p to the end of s
matchCellPair(s, p) == cellPairFrom(s, matchCell(s, p, LetterSet), LetterSet)

\* the object parseRangeRef returns for a match m with sheet group sheet
rangeRefOf(sheet, m) ==
  [ok |-> TRUE,
   sheet |-> sheet,
   startCol |-> toUpperCase(m.startCol),
   startRow |-> m.startRow,
   endCol |-> toUpperCase(m.endCol),
   endRow |-> m.endRow]

rangeRefPick(sh, withSheet, bare) ==
  IF sh.ok /\ withSheet.ok THEN rangeRefOf(sh.sheet, withSheet)
  ELSE IF bare.ok THEN rangeRefOf(<<>>, bare)
  ELSE [ok |-> FALSE]

rangeRefMatch(clean, sh) ==
  rangeRefPick(sh, matchCellPair(clean, sh.next), matchCellPair(clean, 1))

\* parseRangeRef: the result null is the record with ok = FALSE
parseRangeRef(ref) ==
  rangeRefMatch(trim(stripLeadingEq(ref)), matchSheetPart(trim(stripLeadingEq(ref))))

\* `$${col}$${row}` of the templates
anchored(col, row) == <<"$">> \o col \o <<"$">> \o row

\* `${prefix}$${c1}$${r1}:$${c2}$${r2}` of the templates
rangeText(prefix, c1, r1, c2, r2) ==
  prefix \o anchored(c1, r1) \o <<":">> \o anchored(c2, r2)

\* `OFFSET(${anchor},${rowOff},${colOff},${height},${width})`
offsetTerm(anchor, rowOff, colOff, height, width) ==
  L_OFFSET \o anchor \o <<",">> \o rowOff \o <<",">> \o colOff \o <<",">>
  \o height \o <<",">> \o width \o <<")">>

\* `COUNTA(${range})`
counta(range) == L_COUNTA \o range \o <<")">>

\* const sheetPrefix = sheet ? `${sheet}!` : ""
editorSheetPrefix(sheet) == IF sheet # <<>> THEN sheet \o <<"!">> ELSE <<>>

\* the return statement of buildDynamicFormula
dynamicFormulaText(sheetPrefixStr, adjustedStartCol, adjustedStartRow, bufferCol, bufferRowNum) ==
  <<"=">> \o offsetTerm(
    sheetPrefixStr \o anchored(adjustedStartCol, numStr(adjustedStartRow)),
    <<"0">>, <<"0">>,
    counta(rangeText(sheetPrefixStr, adjustedStartCol, numStr(adjustedStartRow),
                     adjustedStartCol, numStr(bufferRowNum))),
    counta(rangeText(sheetPrefixStr, adjustedStartCol, numStr(adjustedStartRow),
                     bufferCol, numStr(adjustedStartRow))))

\* buildDynamicFormula with the windows left unclamped
dynamicFormulaOfNumsUnclampedWindow(sheet, startColNum, endColNum, startRowNum, endRowNum, skipRows, skipCols) ==
  dynamicFormulaText(
    editorSheetPrefix(sheet),
    numToCol(startColNum + MathMin(skipCols, MathMax(0, endColNum - startColNum))),
    startRowNum + MathMin(skipRows, MathMax(0, endRowNum - startRowNum)),
    numToCol(endColNum + BUFFER),
    endRowNum + BUFFER)

\* buildDynamicFormula with the skip counts left unclamped
dynamicFormulaOfNumsUnclampedSkip(sheet, startColNum, endColNum, startRowNum, endRowNum, skipRows, skipCols) ==
  dynamicFormulaText(
    editorSheetPrefix(sheet),
    numToCol(startColNum + skipCols),
    startRowNum + skipRows,
    numToCol(MathMin(endColNum + BUFFER, MaxColumn)),
    MathMin(endRowNum + BUFFER, MaxRowNum))

\* buildDynamicFormula once the column and row numbers are read
dynamicFormulaOfNums(sheet, startColNum, endColNum, startRowNum, endRowNum, skipRows, skipCols) ==
  dynamicFormulaText(
    editorSheetPrefix(sheet),
    numToCol(startColNum + MathMin(skipCols, MathMax(0, endColNum - startColNum))),
    startRowNum + MathMin(skipRows, MathMax(0, endRowNum - startRowNum)),
    numToCol(MathMin(endColNum + BUFFER, MaxColumn)),
    MathMin(endRowNum + BUFFER, MaxRowNum))

\* buildDynamicFormula for a parsed reference
dynamicFormulaOf(parsed, skipRows, skipCols) ==
  dynamicFormulaOfNums(parsed.sheet, colToNum(parsed.startCol),
                       colToNum(parsed.endCol), parseInt(parsed.startRow),
                       parseInt(parsed.endRow), skipRows, skipCols)

\* the fallback with the "=" prepended to the reference as typed
passThroughAsTyped(ref) == <<"=">> \o ref

\* the fallback of both compilers: `=${ref.replace(/^=/, "")}`
passThrough(ref) == <<"=">> \o stripLeadingEq(ref)

dynamicFormulaPick(ref, parsed, skipRows, skipCols) ==
  IF ~parsed.ok THEN passThrough(ref)
  ELSE dynamicFormulaOf(parsed, skipRows, skipCols)

buildDynamicFormula(ref, skipRows, skipCols) ==
  dynamicFormulaPick(ref, parseRangeRef(ref), skipRows, skipCols)

\* buildHybridFormula's return statement with the aggregate anchored on the
\* last fixed column
hybridFormulaTextOnFixedColumn(sheetPrefixStr, startCol, adjustedStartRow, fixedEndCol, endRow, dynStartCol, bufferCol, bufferRowNum) ==
  <<"=", "(">>
  \o rangeText(sheetPrefixStr, startCol, numStr(adjustedStartRow), fixedEndCol, endRow)
  \o <<",">>
  \o offsetTerm(
       sheetPrefixStr \o anchored(fixedEndCol, numStr(adjustedStartRow)),
       <<"0">>, <<"0">>,
       counta(rangeText(sheetPrefixStr, fixedEndCol, numStr(adjustedStartRow),
                        fixedEndCol, numStr(bufferRowNum))),
       counta(rangeText(sheetPrefixStr, fixedEndCol, numStr(adjustedStartRow),
                        bufferCol, numStr(adjustedStartRow))))
  \o <<")">>

\* the return statement of buildHybridFormula
hybridFormulaText(sheetPrefixStr, startCol, adjustedStartRow, fixedEndCol, endRow, dynStartCol, bufferCol, bufferRowNum) ==
  <<"=", "(">>
  \o rangeText(sheetPrefixStr, startCol, numStr(adjustedStartRow), fixedEndCol, endRow)
  \o <<",">>
  \o offsetTerm(
       sheetPrefixStr \o anchored(dynStartCol, numStr(adjustedStartRow)),
       <<"0">>, <<"0">>,
       counta(rangeText(sheetPrefixStr, dynStartCol, numStr(adjustedStartRow),
                        dynStartCol, numStr(bufferRowNum))),
       counta(rangeText(sheetPrefixStr, dynStartCol, numStr(adjustedStartRow),
                        bufferCol, numStr(adjustedStartRow))))
  \o <<")">>

\* buildHybridFormula once the column and row numbers are read
hybridFormulaOfNums(ref, parsed, fixedCols, skipRows, startColNum, endColNum, startRowNum, endRowNum) ==
  IF fixedCols >= endColNum - startColNum + 1 THEN passThrough(ref)
  ELSE hybridFormulaText(
         editorSheetPrefix(parsed.sheet),
         parsed.startCol,
         startRowNum + skipRows,
         numToCol(startColNum + fixedCols - 1),
         parsed.endRow,
         numToCol(startColNum + fixedCols),
         numToCol(MathMin(endColNum + BUFFER, MaxColumn)),
         MathMin(endRowNum + BUFFER, MaxRowNum))

hybridFormulaPick(ref, parsed, optFixedCols, skipRows) ==
  IF ~parsed.ok THEN passThrough(ref)
  ELSE hybridFormulaOfNums(ref, parsed, MathMax(1, optFixedCols), skipRows,
                           colToNum(parsed.startCol), colToNum(parsed.endCol),
                           parseInt(parsed.startRow), parseInt(parsed.endRow))

buildHybridFormula(ref, optFixedCols, skipRows) ==
  hybridFormulaPick(ref, parseRangeRef(ref), optFixedCols, skipRows)

\* detectRangeType (NameEditor.tsx), the initial type of the editor opened on
\* a name
detectRangeType(formula) ==
  IF ~( \/ includes(toUpperCase(formula), L_OFFSET)
        \/ includes(toUpperCase(formula), L_INDIRECT)
        \/ includes(toUpperCase(formula), L_INDEX) )
  THEN "fixed"
  ELSE IF includes(toUpperCase(formula), <<",">> \o L_OFFSET) THEN "hybrid"
  ELSE "dynamic"

\* getRangeType (NameList.tsx), the badge of a name n of the list
getRangeType(n) ==
  IF ~( \/ includes(toUpperCase(n.formula), L_OFFSET)
        \/ includes(toUpperCase(n.formula), L_INDIRECT)
        \/ includes(toUpperCase(n.formula), L_INDEX) )
  THEN "fixed"
  ELSE IF n.fixedRef # <<>> /\ n.dynamicRef # <<>> THEN "hybrid"
  ELSE "dynamic"

\* isDynamicFormula of the editor
upperHasDynamicCall(u) ==
  includes(u, L_OFFSET) \/ includes(u, L_INDIRECT) \/ includes(u, L_INDEX)

editorIsDynamicFormula(f) == upperHasDynamicCall(toUpperCase(f))

\* /^[A-Za-z]{1,3}\d+$/.test(n), e being the end of the leading letters
cellLikeFrom(n, e) ==
  e >= 1 /\ e <= 3 /\ e < Len(n) /\ runEnd(n, e + 1, DigitSet) = Len(n)

looksLikeCell(n) == cellLikeFrom(n, runEnd(n, 1, LetterSet))

\* the tests shared by the two validateName functions; first is the set of
\* characters a name may start with, rest the set it may continue with
validateNameWith(n, first, rest, msgs) ==
  IF trim(n) = <<>> THEN msgs[1]
  ELSE IF \E i \in 1..Len(n) : n[i] = " " THEN msgs[2]
  ELSE IF n[1] \in DigitSet THEN msgs[3]
  ELSE IF ~(n[1] \in first /\ \A i \in 2..Len(n) : n[i] \in rest) THEN msgs[4]
  ELSE IF looksLikeCell(n) THEN msgs[5]
  ELSE ""

\* validateName of the name editor
editorValidateName(n) ==
  validateNameWith(n, LetterSet \cup {"_", "\\"},
                   LetterSet \cup DigitSet \cup {"_", ".", "\\"},
                   << "Name is required",
                      "Name cannot contain spaces. Use underscores instead.",
                      "Name cannot start with a number",
                      "Name contains invalid characters",
                      "Name looks like a cell reference (e.g. A1)" >>)

\* validateName of the range picker
pickerValidateName(n) ==
  validateNameWith(n, LetterSet \cup {"_"},
                   LetterSet \cup DigitSet \cup {"_", "."},
                   << "Name is required",
                      "No spaces allowed. Use underscores.",
                      "Cannot start with a number",
                      "Invalid characters",
                      "Looks like a cell reference" >>)

(***************************************************************************)
(* Host selection snapshot (excel-names.ts).                               *)
(***************************************************************************)
\* the groups of /^(.+)!\$?([A-Z]+)\$?(\d+)(?::\$?([A-Z]+)\$?(\d+))?$/ when
\* (.+) ends before position i: c1 the first cell, c2 the optional second
addressGroups(address, c1, c2) ==
  IF c1.ok /\ c1.next = Len(address) + 1
  THEN [ok |-> TRUE, startCol |-> c1.col, startRow |-> parseInt(c1.row),
        endCol |-> c1.col, endRow |-> parseInt(c1.row)]
  ELSE IF /\ c1.ok
          /\ c1.next <= Len(address)
          /\ address[c1.next] = ":"
          /\ c2.ok
          /\ c2.next = Len(address) + 1
  THEN [ok |-> TRUE, startCol |-> c1.col, startRow |-> parseInt(c1.row),
        endCol |-> c2.col, endRow |-> parseInt(c2.row)]
  ELSE [ok |-> FALSE]

addressCells(address, c1) ==
  addressGroups(address, c1, matchCell(address, c1.next + 1, UpperSet))

addressMatchAt(address, i) ==
  addressCells(address, matchCell(address, i + 1, UpperSet))

\* if (sheet.startsWith("'") && sheet.endsWith("'")) sheet = sheet.slice(1, -1)
unquoteSheet(raw) ==
  IF Len(raw) >= 2 /\ raw[1] = "'" /\ raw[Len(raw)] = "'"
  THEN SubSeq(raw, 2, Len(raw) - 1)
  ELSE raw

addressResult(sheet, m) ==
  [ok |-> TRUE, sheet |-> sheet, startCol |-> m.startCol,
   startRow |-> m.startRow, endCol |-> m.endCol, endRow |-> m.endRow]

\* the greedy (.+) ends at the last '!' after which the cells match
addressAt(address, i) ==
  addressResult(unquoteSheet(SubSeq(address, 1, i - 1)), addressMatchAt(address, i))

addressPick(address, I) ==
  IF I = {} THEN [ok |-> FALSE]
  ELSE addressAt(address, CHOOSE m \in I : \A o \in I : m >= o)

\* parseRangeAddress; the thrown Error is the record with ok = FALSE
parseRangeAddress(address) ==
  addressPick(address,
              {i \in 2..Len(address) : address[i] = "!" /\ addressMatchAt(address, i).ok})

\* the columns array: numToCol(i) for i from startColNum to endColNum
columnsBetween(startColNum, endColNum) ==
  [k \in 1..MathMax(0, endColNum - startColNum + 1) |-> numToCol(startColNum + k - 1)]

selectionDataOf(h, parsed) ==
  IF ~parsed.ok THEN [picked |-> FALSE]
  ELSE [picked |-> TRUE,
        address |-> h.address,
        sheet |-> h.sheet,
        valuesLength |-> h.valueRows,
        startCol |-> parsed.startCol,
        endCol |-> parsed.endCol,
        startRow |-> parsed.startRow,
        endRow |-> parsed.endRow,
        colCount |-> h.valueCols,
        rowCount |-> h.valueRows,
        columns |-> columnsBetween(colToNum(parsed.startCol),
                                   colToNum(parsed.endCol))]

\* getSelectionData for a host selection h: the address and the values grid of
\* the selected range, and the name of the active sheet.  A failure (the
\* address does not parse) is the record with picked = FALSE.
getSelectionData(h) == selectionDataOf(h, parseRangeAddress(h.address))

(***************************************************************************)
(* Comment tags (excel-names.ts).                                          *)
(***************************************************************************)
EPIFAI_TAG == <<"[","E","p","i","f","a","i","]">>
LASTCOL_TAG == <<"[","l","a","s","t","c","o","l","]">>
LASTROW_TAG == <<"[","l","a","s","t","r","o","w","]">>
EXPANDROWS_TAG == <<"[","e","x","p","a","n","d","r","o","w","s","]">>
EXPANDCOLS_TAG == <<"[","e","x","p","a","n","d","c","o","l","s","]">>
\* the literal openings of the tag patterns
L_SKIP == <<"[","s","k","i","p",":">>
L_FIXREF == <<"[","f","i","x","r","e","f",":">>
L_DYNREF == <<"[","d","y","n","r","e","f",":">>
L_ORIGRANGE == <<"[","o","r","i","g","r","a","n","g","e",":">>
L_SKIPCIDX == <<"[","s","k","i","p","c","i","d","x",":">>
L_SKIPRIDX == <<"[","s","k","i","p","r","i","d","x",":">>
L_COLOVERFLOW == <<"[","c","o","l","o","v","e","r","f","l","o","w",":">>
L_ROWOVERFLOW == <<"[","r","o","w","o","v","e","r","f","l","o","w",":">>

\* /\[tag:([^\]]+)\]/ tried at position i, the run of [^\]] ending at e: the
\* end of the group, 0 when the pattern does not match there
tagGroupEnd(c, i, open, e) ==
  IF /\ startsWithAt(c, i, open)
     /\ e >= i + Len(open)
     /\ e + 1 <= Len(c)
     /\ c[e + 1] = "]"
  THEN e ELSE 0

tagGroupAt(c, i, open) == tagGroupEnd(c, i, open, runEndNot(c, i + Len(open), {"]"}))

\* the group of the leftmost match among the matching positions I
tagGroupFrom(c, open, I) ==
  IF I = {} THEN <<>>
  ELSE SubSeq(c, (CHOOSE m \in I : \A o \in I : m <= o) + Len(open),
              tagGroupAt(c, CHOOSE m \in I : \A o \in I : m <= o, open))

\* m ? m[1] : "" for comment.match(/\[tag:([^\]]+)\]/); a group is never empty
tagGroup(c, open) ==
  tagGroupFrom(c, open, {i \in 1..Len(c) : tagGroupAt(c, i, open) # 0})

\* /\[skip:(\d+),(\d+)\]/ tried at position i, the first digits ending at e1
\* and the second at e2
skipTagResult(c, i, e1, e2) ==
  IF /\ startsWithAt(c, i, L_SKIP)
     /\ e1 >= i + Len(L_SKIP)
     /\ e1 + 1 <= Len(c)
     /\ c[e1 + 1] = ","
     /\ e2 >= e1 + 2
     /\ e2 + 1 <= Len(c)
     /\ c[e2 + 1] = "]"
  THEN [ok |-> TRUE,
        skipRows |-> parseInt(SubSeq(c, i + Len(L_SKIP), e1)),
        skipCols |-> parseInt(SubSeq(c, e1 + 2, e2))]
  ELSE [ok |-> FALSE, skipRows |-> 0, skipCols |-> 0]

skipTagDigits(c, i, e1) == skipTagResult(c, i, e1, runEnd(c, e1 + 2, DigitSet))

skipTagAt(c, i) == skipTagDigits(c, i, runEnd(c, i + Len(L_SKIP), DigitSet))

skipTagFrom(c, I) ==
  IF I = {} THEN [skipRows |-> 0, skipCols |-> 0]
  ELSE [skipRows |-> skipTagAt(c, CHOOSE m \in I : \A o \in I : m <= o).skipRows,
        skipCols |-> skipTagAt(c, CHOOSE m \in I : \A o \in I : m <= o).skipCols]

parseSkipTag(comment) ==
  skipTagFrom(comment, {i \in 1..Len(comment) : skipTagAt(comment, i).ok})

\* buildSkipTag deciding on the row count alone
buildSkipTagByRows(skipRows, skipCols) ==
  IF skipRows = 0 THEN <<>>
  ELSE L_SKIP \o numStr(skipRows) \o <<",">> \o numStr(skipCols) \o <<"]">>

parseFixedRefTag(comment) == tagGroup(comment, L_FIXREF)

parseDynamicRefTag(comment) == tagGroup(comment, L_DYNREF)

buildSkipTag(skipRows, skipCols) ==
  IF skipRows = 0 /\ skipCols = 0 THEN <<>>
  ELSE L_SKIP \o numStr(skipRows) \o <<",">> \o numStr(skipCols) \o <<"]">>

buildFixedRefTag(ref) == IF ref = <<>> THEN <<>> ELSE L_FIXREF \o ref \o <<"]">>

buildDynamicRefTag(ref) == IF ref = <<>> THEN <<>> ELSE L_DYNREF \o ref \o <<"]">>

parseLastColTag(comment) == includes(comment, LASTCOL_TAG)

buildLastColTag(lastColOnly) == IF lastColOnly THEN LASTCOL_TAG ELSE <<>>

parseLastRowTag(comment) == includes(comment, LASTROW_TAG)

buildLastRowTag(lastRowOnly) == IF lastRowOnly THEN LASTROW_TAG ELSE <<>>

parseOrigRangeTag(comment) == tagGroup(comment, L_ORIGRANGE)

buildOrigRangeTag(address) ==
  IF address = <<>> THEN <<>> ELSE L_ORIGRANGE \o address \o <<"]">>

parseExpandRowsTag(comment) == includes(comment, EXPANDROWS_TAG)

parseExpandColsTag(comment) == includes(comment, EXPANDCOLS_TAG)

\* Number(s) of a string without blanks or sign: 0 for the empty string, the
\* value of a digit string, NaN otherwise
Number(s) ==
  IF s = <<>> THEN 0
  ELSE IF runEnd(s, 1, DigitSet) = Len(s) THEN digitsValue(s, 0)
  ELSE NaN

\* m ? m[1].split(",").map(Number) : []
indicesOf(group) ==
  IF group = <<>> THEN <<>>
  ELSE [k \in 1..Len(split(group, ",")) |-> Number(split(group, ",")[k])]

parseSkipColIndicesTag(comment) == indicesOf(tagGroup(comment, L_SKIPCIDX))

parseSkipRowIndicesTag(comment) == indicesOf(tagGroup(comment, L_SKIPRIDX))

buildExpandRowsTag(on) == IF on THEN EXPANDROWS_TAG ELSE <<>>

buildExpandColsTag(on) == IF on THEN EXPANDCOLS_TAG ELSE <<>>

\* indices.join(",")
joinNumbers(indices) == join([k \in 1..Len(indices) |-> numStr(indices[k])], <<",">>)

buildSkipColIndicesTag(indices) ==
  IF Len(indices) = 0 THEN <<>> ELSE L_SKIPCIDX \o joinNumbers(indices) \o <<"]">>

buildSkipRowIndicesTag(indices) ==
  IF Len(indices) = 0 THEN <<>> ELSE L_SKIPRIDX \o joinNumbers(indices) \o <<"]">>

\* An object is the sequence of its <<key, value>> properties in property
\* order; keys are strings.
\* is k an integer-like property key (these are kept first, ascending)
isIndexKey(k) ==
  /\ k # <<>>
  /\ runEnd(k, 1, DigitSet) = Len(k)
  /\ (Len(k) = 1 \/ k[1] # "0")

\* the position at which a new property k is created in obj
propertySlot(obj, k) ==
  IF isIndexKey(k)
  THEN 1 + Cardinality({i \in 1..Len(obj) :
                          isIndexKey(obj[i][1]) /\ digitsValue(obj[i][1], 0) < digitsValue(k, 0)})
  ELSE Len(obj) + 1

\* result[k] = v
setProperty(obj, k, v) ==
  IF \E i \in 1..Len(obj) : obj[i][1] = k
  THEN [i \in 1..Len(obj) |-> IF obj[i][1] = k THEN <<k, v>> ELSE obj[i]]
  ELSE SubSeq(obj, 1, propertySlot(obj, k) - 1) \o <<(<<k, v>>)>>
       \o SubSeq(obj, propertySlot(obj, k), Len(obj))

\* String(n) of a property key that is a number
keyOfNumber(n) == IF n = NaN THEN <<"N","a","N">> ELSE numStr(n)

\* `${v}` of a count
valueStr(v) == IF v = NaN THEN <<"N","a","N">> ELSE numStr(v)

\* encodeOverflow writing every entry with its own value
encodeOverflowPairwise(entries) ==
  IF Len(entries) = 0 THEN <<>>
  ELSE join([i \in 1..Len(entries) |->
               entries[i][1] \o <<":">> \o valueStr(entries[i][2])], <<",">>)

\* encodeOverflow
encodeOverflow(entries) ==
  IF Len(entries) = 0 THEN <<>>
  ELSE IF \A i \in 1..Len(entries) : entries[i][2] = entries[1][2]
  THEN join([i \in 1..Len(entries) |-> entries[i][1]], <<",">>)
       \o <<"=">> \o valueStr(entries[1][2])
  ELSE join([i \in 1..Len(entries) |->
               entries[i][1] \o <<":">> \o valueStr(entries[i][2])], <<",">>)

\* keys.map(k => [k, val])
sharedValueEntries(keys, val) == [i \in 1..Len(keys) |-> <<keys[i], val>>]

\* p => { const [k, v] = p.split(":"); return [k, parseInt(v, 10)] }
pairEntry(pieces) ==
  <<pieces[1], IF Len(pieces) >= 2 THEN parseInt(pieces[2]) ELSE NaN>>

pairEntries(parts) == [i \in 1..Len(parts) |-> pairEntry(split(parts[i], ":"))]

\* decodeOverflow, given eqIdx + 1 (0: no "=")
decodeOverflowAt(s, eqPos) ==
  IF eqPos > 1 /\ ~includes(SubSeq(s, 1, eqPos - 1), <<":">>)
  THEN sharedValueEntries(split(SubSeq(s, 1, eqPos - 1), ","),
                          parseInt(SubSeq(s, eqPos + 1, Len(s))))
  ELSE pairEntries(split(s, ","))

decodeOverflow(s) ==
  IF s = <<>> THEN <<>> ELSE decodeOverflowAt(s, lastIndexOf(s, <<"=">>))

\* for (const [k, v] of entries) result[Number(k)] = v
RECURSIVE assignNumberKeys(_, _)
assignNumberKeys(entries, result) ==
  IF entries = <<>> THEN result
  ELSE assignNumberKeys(Tail(entries),
                        setProperty(result, keyOfNumber(Number(Head(entries)[1])),
                                    Head(entries)[2]))

\* for (const [k, v] of entries) result[k] = v
RECURSIVE assignKeys(_, _)
assignKeys(entries, result) ==
  IF entries = <<>> THEN result
  ELSE assignKeys(Tail(entries),
                  setProperty(result, Head(entries)[1], Head(entries)[2]))

\* parseColOverflowTag for the group m[1] ("" when there is no match).  The
\* legacy JSON form (a group that starts with "{") is written by no
\* operation of the model and is read as the empty object.
colOverflowOf(group) ==
  IF group = <<>> THEN <<>>
  ELSE IF group[1] = "{" THEN <<>>
  ELSE assignNumberKeys(decodeOverflow(group), <<>>)

parseColOverflowTag(comment) == colOverflowOf(tagGroup(comment, L_COLOVERFLOW))

rowOverflowOf(group) ==
  IF group = <<>> THEN <<>>
  ELSE IF group[1] = "{" THEN <<>>
  ELSE assignKeys(decodeOverflow(group), <<>>)

parseRowOverflowTag(comment) == rowOverflowOf(tagGroup(comment, L_ROWOVERFLOW))

\* Object.entries(overflow) is the object itself in this representation
buildColOverflowTag(overflow) ==
  IF Len(overflow) = 0 THEN <<>>
  ELSE L_COLOVERFLOW \o encodeOverflow(overflow) \o <<"]">>

buildRowOverflowTag(overflow) ==
  IF Len(overflow) = 0 THEN <<>>
  ELSE L_ROWOVERFLOW \o encodeOverflow(overflow) \o <<"]">>

\* the comment addName writes: parts.filter(Boolean).join(" ")
addNameComment(o) ==
  join(filterNonEmpty(<<EPIFAI_TAG,
                        o.comment,
                        buildSkipTag(o.skipRows, o.skipCols),
                        buildFixedRefTag(o.fixedRef),
                        buildDynamicRefTag(o.dynamicRef),
                        buildLastColTag(o.lastColOnly),
                        buildLastRowTag(o.lastRowOnly),
                        buildOrigRangeTag(o.origRange),
                        buildExpandRowsTag(o.expandRows),
                        buildExpandColsTag(o.expandCols),
                        buildSkipColIndicesTag(o.skippedColIndices),
                        buildSkipRowIndicesTag(o.skippedRowIndices),
                        buildColOverflowTag(o.colOverflowByRow),
                        buildRowOverflowTag(o.rowOverflowByCol)>>),
       <<" ">>)

\* the least element of a set of positions, 0 for the empty set
firstOf(I) == IF I = {} THEN 0 ELSE CHOOSE m \in I : \A o \in I : m <= o

\* s without its characters from position i to position e (i = 0: no match)
cutMatch(s, i, e) ==
  IF i = 0 THEN s ELSE SubSeq(s, 1, i - 1) \o SubSeq(s, e + 1, Len(s))

\* comment.replace(TAG, "") for a string TAG: the first occurrence only
replaceLiteral(c, tag) == cutMatch(c, indexOf(c, tag), indexOf(c, tag) + Len(tag) - 1)

\* comment.replace(/\[tag:([^\]]+)\]/, ""): the leftmost match only
replaceGroupAt(c, open, i) ==
  cutMatch(c, i, IF i = 0 THEN 0 ELSE tagGroupAt(c, i, open) + 1)

replaceGroupTag(c, open) ==
  replaceGroupAt(c, open, firstOf({i \in 1..Len(c) : tagGroupAt(c, i, open) # 0}))

\* the end of the match of /\[skip:(\d+),(\d+)\]/ that starts at position i
skipTagEnd(c, i) ==
  runEnd(c, runEnd(c, i + Len(L_SKIP), DigitSet) + 2, DigitSet) + 1

replaceSkipAt(c, i) == cutMatch(c, i, IF i = 0 THEN 0 ELSE skipTagEnd(c, i))

\* comment.replace(SKIP_TAG_RE, "")
replaceSkipTag(c) ==
  replaceSkipAt(c, firstOf({i \in 1..Len(c) : skipTagAt(c, i).ok}))

\* the replacements of stripMetaTags in the order of the chain
MetaTagSteps ==
  << [kind |-> "literal", tag |-> EPIFAI_TAG],
     [kind |-> "skip", tag |-> L_SKIP],
     [kind |-> "group", tag |-> L_FIXREF],
     [kind |-> "group", tag |-> L_DYNREF],
     [kind |-> "literal", tag |-> LASTCOL_TAG],
     [kind |-> "literal", tag |-> LASTROW_TAG],
     [kind |-> "group", tag |-> L_ORIGRANGE],
     [kind |-> "literal", tag |-> EXPANDROWS_TAG],
     [kind |-> "literal", tag |-> EXPANDCOLS_TAG],
     [kind |-> "group", tag |-> L_SKIPCIDX],
     [kind |-> "group", tag |-> L_SKIPRIDX],
     [kind |-> "group", tag |-> L_COLOVERFLOW],
     [kind |-> "group", tag |-> L_ROWOVERFLOW] >>

replaceStep(c, step) ==
  IF step.kind = "literal" THEN replaceLiteral(c, step.tag)
  ELSE IF step.kind = "skip" THEN replaceSkipTag(c)
  ELSE replaceGroupTag(c, step.tag)

RECURSIVE replaceSteps(_, _)
replaceSteps(c, steps) ==
  IF steps = <<>> THEN c
  ELSE replaceSteps(replaceStep(c, Head(steps)), Tail(steps))

\* stripMetaTags without the final trim
stripMetaTagsUntrimmed(comment) == replaceSteps(comment, MetaTagSteps)

stripMetaTags(comment) == trim(replaceSteps(comment, MetaTagSteps))

\* updates.f !== undefined ? updates.f : the value parsed from the old comment;
\* a field of updates is <<>> when undefined and <<v>> when given
givenOr(given, parsed) == IF given = <<>> THEN parsed ELSE given[1]

\* the comment updateName writes over oldRaw: parts.filter(Boolean).join(" ")
updateNameComment(oldRaw, updates) ==
  join(filterNonEmpty(<<IF includes(oldRaw, EPIFAI_TAG) THEN EPIFAI_TAG ELSE <<>>,
                        givenOr(updates.comment, stripMetaTags(oldRaw)),
                        buildSkipTag(givenOr(updates.skipRows, parseSkipTag(oldRaw).skipRows),
                                     givenOr(updates.skipCols, parseSkipTag(oldRaw).skipCols)),
                        buildFixedRefTag(givenOr(updates.fixedRef, parseFixedRefTag(oldRaw))),
                        buildDynamicRefTag(givenOr(updates.dynamicRef, parseDynamicRefTag(oldRaw))),
                        buildLastColTag(givenOr(updates.lastColOnly, parseLastColTag(oldRaw))),
                        buildLastRowTag(givenOr(updates.lastRowOnly, parseLastRowTag(oldRaw))),
                        buildOrigRangeTag(givenOr(updates.origRange, parseOrigRangeTag(oldRaw))),
                        buildExpandRowsTag(givenOr(updates.expandRows, parseExpandRowsTag(oldRaw))),
                        buildExpandColsTag(givenOr(updates.expandCols, parseExpandColsTag(oldRaw))),
                        buildSkipColIndicesTag(givenOr(updates.skippedColIndices, parseSkipColIndicesTag(oldRaw))),
                        buildSkipRowIndicesTag(givenOr(updates.skippedRowIndices, parseSkipRowIndicesTag(oldRaw))),
                        buildColOverflowTag(givenOr(updates.colOverflowByRow, parseColOverflowTag(oldRaw))),
                        buildRowOverflowTag(givenOr(updates.rowOverflowByCol, parseRowOverflowTag(oldRaw)))>>),
       <<" ">>)

\* isDynamicFormula of excel-names.ts
isDynamicFormula(formula) ==
  \/ includes(toUpperCase(formula), L_OFFSET)
  \/ includes(toUpperCase(formula), L_INDIRECT)
  \/ includes(toUpperCase(formula), L_INDEX)

\* the loop of splitFormulaTopLevel from character i on, with the loop
\* variables depth, current and parts
RECURSIVE splitTopLevelFrom(_, _, _, _, _)
splitTopLevelFrom(formula, i, depth, current, parts) ==
  IF i > Len(formula)
  THEN IF current # <<>> THEN Append(parts, current) ELSE parts
  ELSE IF formula[i] = "("
  THEN splitTopLevelFrom(formula, i + 1, depth + 1, Append(current, "("), parts)
  ELSE IF formula[i] = ")"
  THEN splitTopLevelFrom(formula, i + 1, depth - 1, Append(current, ")"), parts)
  ELSE IF formula[i] = "," /\ depth = 0
  THEN splitTopLevelFrom(formula, i + 1, depth, <<>>, Append(parts, current))
  ELSE splitTopLevelFrom(formula, i + 1, depth, Append(current, formula[i]), parts)

splitFormulaTopLevel(formula) == splitTopLevelFrom(formula, 1, 0, <<>>, <<>>)

isUnionFormula(formula) == Len(splitFormulaTopLevel(stripLeadingEq(formula))) > 1

\* the text "#REF!"
REF_ERROR == <<"#","R","E","F","!">>

\* a value of a named item is a string [type |-> "string", text |-> s] or a
\* number [type |-> "number", num |-> n]
isBrokenValue(value) ==
  IF value.type = "string"
  THEN \/ toUpperCase(value.text) = REF_ERROR
       \/ includes(toUpperCase(value.text), REF_ERROR)
  ELSE FALSE

\* the status of buildExcelName looking at the address alone
statusByAddress(namedItem, address) ==
  IF address = <<>> /\ ~isDynamicFormula(namedItem.formula) /\ ~isUnionFormula(namedItem.formula)
  THEN "broken"
  ELSE "valid"

\* let status = "valid"; if (...) status = "broken"; else if (...) status = "broken"
statusOf(namedItem, address) ==
  IF address = <<>> /\ ~isDynamicFormula(namedItem.formula) /\ ~isUnionFormula(namedItem.formula)
  THEN "broken"
  ELSE IF isBrokenValue(namedItem.value) THEN "broken"
  ELSE "valid"

\* buildExcelName for a named item [comment, formula, value] of the host and
\* the resolved address ("" when there is none)
buildExcelName(namedItem, address) ==
  [value |-> namedItem.value,
   formula |-> namedItem.formula,
   comment |-> stripMetaTags(namedItem.comment),
   address |-> address,
   status |-> statusOf(namedItem, address),
   origin |-> IF includes(namedItem.comment, EPIFAI_TAG) THEN "epifai" ELSE "excel",
   skipRows |-> parseSkipTag(namedItem.comment).skipRows,
   skipCols |-> parseSkipTag(namedItem.comment).skipCols,
   fixedRef |-> parseFixedRefTag(namedItem.comment),
   dynamicRef |-> parseDynamicRefTag(namedItem.comment),
   lastColOnly |-> parseLastColTag(namedItem.comment),
   lastRowOnly |-> parseLastRowTag(namedItem.comment),
   origRange |-> parseOrigRangeTag(namedItem.comment),
   expandRows |-> parseExpandRowsTag(namedItem.comment),
   expandCols |-> parseExpandColsTag(namedItem.comment),
   skippedColIndices |-> parseSkipColIndicesTag(namedItem.comment),
   skippedRowIndices |-> parseSkipRowIndicesTag(namedItem.comment),
   colOverflowByRow |-> parseColOverflowTag(namedItem.comment),
   rowOverflowByCol |-> parseRowOverflowTag(namedItem.comment)]

(***************************************************************************)
(* Range picker (RangePicker.tsx).                                         *)
(***************************************************************************)
\* picker and editor are the states of the two components, item the named
\* item of the workbook, call a call of a library function: the function, its
\* arguments and, once it has returned, its result; workbook is the host's
\* state (its names, its selection), tasks the asynchronous functions that
\* are running, each with its position and its locals, home the state of the
\* Home page
VARIABLES picker, editor, item, call, workbook, tasks, home

vars == <<picker, editor, item, call, workbook, tasks, home>>

\* no workbook is attached, nothing runs, the page holds nothing
NoWorkbook == [attached |-> FALSE]
NoTasks == [running |-> FALSE]
NoHome == [shown |-> FALSE]
hostIdle == workbook = NoWorkbook /\ tasks = NoTasks /\ home = NoHome

\* no library call is observed
NoCall == [fn |-> "none"]

MAX_PREVIEW_ROWS == 8
MAX_PREVIEW_COLS == 10

\* Array.from({ length: total }, (_, i) => i).filter(i => !skipped.has(i))
activeIndices(total, skipped) ==
  SelectSeq([k \in 1..total |-> k - 1], LAMBDA i : i \notin skipped)

\* the count of all skipped indices from i on
RECURSIVE skipCountAll(_, _, _)
skipCountAll(total, skipped, i) ==
  IF i >= total THEN 0
  ELSE (IF i \in skipped THEN 1 ELSE 0) + skipCountAll(total, skipped, i + 1)

\* the counting loop of topSkipCount / leftSkipCount
RECURSIVE leadingSkipCount(_, _, _)
leadingSkipCount(total, skipped, i) ==
  IF i < total /\ i \in skipped THEN leadingSkipCount(total, skipped, i + 1) ELSE i

topSkipCount(sel, skippedRows) == leadingSkipCount(sel.rowCount, skippedRows, 0)

leftSkipCount(sel, skippedCols) == leadingSkipCount(sel.colCount, skippedCols, 0)

\* Array.prototype.slice(from, to) with 0 <= from
slice(arr, from, to) == SubSeq(arr, from + 1, MathMin(to, Len(arr)))

\* activeColIndices.map(i => cols[i])
lettersAt(columns, indices) ==
  [k \in 1..Len(indices) |-> columns[indices[k] + 1]]

\* summary (useMemo), given the active column letters and the skip counts
summaryFrom(activeCols, skipRows, skipCols, fixedBoundary, lastColOnly) ==
  IF fixedBoundary > 0
  THEN [type |-> "hybrid",
        fixedCols |-> slice(activeCols, 0, fixedBoundary),
        dynamicCols |-> slice(activeCols, fixedBoundary, Len(activeCols)),
        skipRows |-> skipRows,
        skipCols |-> skipCols,
        lastColOnly |-> lastColOnly]
  ELSE [type |-> "simple",
        cols |-> activeCols,
        skipRows |-> skipRows,
        skipCols |-> skipCols,
        lastColOnly |-> FALSE]

\* summary of a held selection
summaryOf(sel, skippedRows, skippedCols, fixedBoundary, lastColOnly) ==
  summaryFrom(lettersAt(sel.columns, activeIndices(sel.colCount, skippedCols)),
              topSkipCount(sel, skippedRows),
              leftSkipCount(sel, skippedCols),
              fixedBoundary, lastColOnly)

\* buildResult's simple branch with the range closed on its first column
buildSimpleResultFirstColumn(sel, sum) ==
  IF Len(sum.cols) = 0 THEN [ok |-> FALSE]
  ELSE [ok |-> TRUE,
        refersTo |-> <<"=">> \o rangeText(sheetPrefix(sel.sheet),
                                          sum.cols[1],
                                          numStr(sel.startRow + sum.skipRows),
                                          sum.cols[1],
                                          numStr(sel.endRow)),
        skipRows |-> sum.skipRows,
        skipCols |-> sum.skipCols,
        fixedRef |-> <<>>,
        dynamicRef |-> <<>>,
        lastColOnly |-> FALSE]

\* the simple branch of buildResult
buildSimpleResult(sel, sum) ==
  IF Len(sum.cols) = 0 THEN [ok |-> FALSE]
  ELSE [ok |-> TRUE,
        refersTo |-> <<"=">> \o rangeText(sheetPrefix(sel.sheet),
                                          sum.cols[1],
                                          numStr(sel.startRow + sum.skipRows),
                                          sum.cols[Len(sum.cols)],
                                          numStr(sel.endRow)),
        skipRows |-> sum.skipRows,
        skipCols |-> sum.skipCols,
        fixedRef |-> <<>>,
        dynamicRef |-> <<>>,
        lastColOnly |-> FALSE]

\* formula of the hybrid branch with the last-column switch ignored
hybridResultFormulaFullWidth(lastColOnly, fixedPart, dynAnchor, rowCountRange, colCountRange) ==
  <<"=">> \o fixedPart \o <<",">>
  \o offsetTerm(dynAnchor, <<"0">>, <<"0">>,
                counta(rowCountRange), counta(colCountRange))

\* the aggregate term that keeps only the last row of the dynamic block:
\* a slice one row tall at offset (height count - 1)
lastRowOnlyTerm(dynAnchor, rowCountRange, colCountRange) ==
  offsetTerm(dynAnchor, counta(rowCountRange) \o <<"-", "1">>, <<"0">>,
             <<"1">>, counta(colCountRange))

\* formula of the hybrid branch
hybridResultFormula(lastColOnly, fixedPart, dynAnchor, rowCountRange, colCountRange) ==
  IF lastColOnly
  THEN <<"=">> \o fixedPart \o <<",">>
       \o offsetTerm(dynAnchor, <<"0">>, counta(colCountRange) \o <<"-", "1">>,
                     counta(rowCountRange), <<"1">>)
  ELSE <<"=">> \o fixedPart \o <<",">>
       \o offsetTerm(dynAnchor, <<"0">>, <<"0">>,
                     counta(rowCountRange), counta(colCountRange))

\* the hybrid branch of buildResult once its locals are computed
hybridResultOf(sum, sp, sheetRef, dataStartRow, endRow, fixedFirst, fixedLast, dynFirst, dynLast, bufferCol, bufferRowNum) ==
  [ok |-> TRUE,
   refersTo |-> hybridResultFormula(
                  sum.lastColOnly,
                  rangeText(sp, fixedFirst, dataStartRow, fixedLast, endRow),
                  sp \o anchored(dynFirst, dataStartRow),
                  rangeText(sp, dynFirst, dataStartRow, dynFirst, bufferRowNum),
                  rangeText(sp, dynFirst, dataStartRow, bufferCol, dataStartRow)),
   skipRows |-> sum.skipRows,
   skipCols |-> sum.skipCols,
   fixedRef |-> rangeText(sheetRef, fixedFirst, dataStartRow, fixedLast, endRow),
   dynamicRef |-> rangeText(sheetRef, dynFirst, dataStartRow, dynLast, endRow),
   lastColOnly |-> sum.lastColOnly]

\* const sheetRef = qSheet ? `${qSheet}!` : ""
sheetRefOf(qSheet) == IF qSheet # <<>> THEN qSheet \o <<"!">> ELSE <<>>

\* the hybrid branch of buildResult
buildHybridResult(sel, sum) ==
  IF Len(sum.fixedCols) = 0 \/ Len(sum.dynamicCols) = 0 THEN [ok |-> FALSE]
  ELSE hybridResultOf(
         sum,
         sheetPrefix(sel.sheet),
         sheetRefOf(quoteSheet(sel.sheet)),
         numStr(sel.startRow + sum.skipRows),
         numStr(sel.endRow),
         sum.fixedCols[1],
         sum.fixedCols[Len(sum.fixedCols)],
         sum.dynamicCols[1],
         sum.dynamicCols[Len(sum.dynamicCols)],
         numToCol(MathMin(colToNum(sum.dynamicCols[Len(sum.dynamicCols)]) + BUFFER,
                          MaxColumn)),
         numStr(MathMin(sel.endRow + BUFFER, MaxRowNum)))

buildResultFrom(sel, sum) ==
  IF sum.type = "simple" THEN buildSimpleResult(sel, sum)
  ELSE buildHybridResult(sel, sum)

\* buildResult of a picker state p; null is the record with ok = FALSE
buildResult(p) ==
  IF ~p.selectionData.picked THEN [ok |-> FALSE]
  ELSE buildResultFrom(p.selectionData,
                       summaryOf(p.selectionData, p.skippedRows, p.skippedCols,
                                 p.fixedBoundary, p.lastColOnly))

\* what the host can hand to a pick: the address of the selected range, the
\* name of the active sheet and the size of the values grid
HostSelections ==
  { [address |-> <<"S","h","e","e","t","1","!","A","1",":","D","1","0">>, sheet |-> <<"S","h","e","e","t","1">>, valueRows |-> 10, valueCols |-> 4],
    [address |-> <<"'","M","y"," ","S","h","e","e","t","'","!","B","2",":","C","3">>, sheet |-> <<"M","y"," ","S","h","e","e","t">>, valueRows |-> 2, valueCols |-> 2],
    [address |-> <<"S","h","e","e","t","1","!","X","F","B","1","0","4","8","5","7","5",":","X","F","D","1","0","4","8","5","7","6">>, sheet |-> <<"S","h","e","e","t","1">>, valueRows |-> 2, valueCols |-> 3],
    [address |-> <<"S","h","e","e","t","1","!","C","5">>, sheet |-> <<"S","h","e","e","t","1">>, valueRows |-> 1, valueCols |-> 1],
    [address |-> <<"S","h","e","e","t","1","!","A",":","D">>, sheet |-> <<"S","h","e","e","t","1">>, valueRows |-> 1048576, valueCols |-> 4] }

\* the names typed into the picker's name field
PickerNames == { <<"R","e","v","e","n","u","e","_","2","0","2","4">>, <<"A","1">> }

\* the component is mounted until onSave hands the result to Home, which
\* returns to the list view
pickerMounted == picker.mounted /\ picker.saved = <<>>

pickerSetName(n) ==
  /\ pickerMounted
  /\ picker' = [picker EXCEPT !.name = n, !.nameError = ""]
  /\ UNCHANGED <<editor, item, call, workbook, tasks, home>>

\* a pick that replaces the selection and leaves the rest of the state
pickedStateKeepingSkips(p, data) ==
  IF data.picked THEN [p EXCEPT !.selectionData = data] ELSE p

\* the state after a pick that returned data
pickedState(p, data) ==
  IF data.picked
  THEN [p EXCEPT !.selectionData = data,
                 !.skippedRows = {},
                 !.skippedCols = {},
                 !.fixedBoundary = 0,
                 !.lastColOnly = FALSE]
  ELSE p

handlePick(h) ==
  /\ pickerMounted
  /\ picker' = pickedState(picker, getSelectionData(h))
  /\ UNCHANGED <<editor, item, call, workbook, tasks, home>>

previewRows ==
  IF picker.selectionData.picked
  THEN MathMin(picker.selectionData.valuesLength, MAX_PREVIEW_ROWS) ELSE 0

previewCols ==
  IF picker.selectionData.picked
  THEN MathMin(picker.selectionData.colCount, MAX_PREVIEW_COLS) ELSE 0

\* the updater of toggleRowSkip / toggleColSkip
toggle(set, idx) == IF idx \in set THEN set \ {idx} ELSE set \cup {idx}

toggleRowSkip(rowIdx) ==
  /\ pickerMounted
  /\ rowIdx < previewRows
  /\ picker' = [picker EXCEPT !.skippedRows = toggle(@, rowIdx)]
  /\ UNCHANGED <<editor, item, call, workbook, tasks, home>>

toggleColSkip(colIdx) ==
  /\ pickerMounted
  /\ colIdx < previewCols
  /\ picker' = [picker EXCEPT !.skippedCols = toggle(@, colIdx)]
  /\ UNCHANGED <<editor, item, call, workbook, tasks, home>>

\* the number of split buttons: one per active column of the preview, shown
\* when more than one column is active
splitButtons ==
  IF ~picker.selectionData.picked THEN 0
  ELSE IF Len(activeIndices(picker.selectionData.colCount, picker.skippedCols)) > 1
  THEN MathMin(Len(activeIndices(picker.selectionData.colCount, picker.skippedCols)),
               previewCols)
  ELSE 0

setDividerAt(colIdx) ==
  /\ pickerMounted
  /\ colIdx >= 1
  /\ colIdx <= splitButtons
  /\ picker' = [picker EXCEPT !.fixedBoundary = IF @ = colIdx THEN 0 ELSE colIdx]
  /\ UNCHANGED <<editor, item, call, workbook, tasks, home>>

\* the "Last column only" switch, shown in hybrid mode
setLastColOnly(on) ==
  /\ pickerMounted
  /\ picker.selectionData.picked
  /\ picker.fixedBoundary > 0
  /\ picker' = [picker EXCEPT !.lastColOnly = on]
  /\ UNCHANGED <<editor, item, call, workbook, tasks, home>>

\* the object handed to onSave
savePayload(name, result) ==
  [name |-> name,
   refersTo |-> result.refersTo,
   skipRows |-> result.skipRows,
   skipCols |-> result.skipCols,
   fixedRef |-> result.fixedRef,
   dynamicRef |-> result.dynamicRef,
   lastColOnly |-> result.lastColOnly]

\* the state after handleSave, given the validation error and the result
savedState(p, err, result) ==
  IF err # "" THEN [p EXCEPT !.nameError = err]
  ELSE IF ~result.ok THEN [p EXCEPT !.nameError = "Please select a range first"]
  ELSE [p EXCEPT !.nameError = "", !.saved = <<savePayload(p.name, result)>>]

\* handleSave of the picker; the button is disabled without a selection
pickerHandleSave ==
  /\ pickerMounted
  /\ picker.selectionData.picked
  /\ picker' = savedState(picker, pickerValidateName(picker.name), buildResult(picker))
  /\ UNCHANGED <<editor, item, call, workbook, tasks, home>>

PickerStart ==
  [mounted |-> TRUE,
   selectionData |-> [picked |-> FALSE],
   name |-> <<>>,
   nameError |-> "",
   skippedRows |-> {},
   skippedCols |-> {},
   fixedBoundary |-> 0,
   lastColOnly |-> FALSE,
   saved |-> <<>>]

EditorUnmounted == [mounted |-> FALSE]

NoItem == [stage |-> "none"]

InitPicker == picker = PickerStart /\ editor = EditorUnmounted /\ item = NoItem

NextPicker ==
  \/ \E n \in PickerNames : pickerSetName(n)
  \/ \E h \in HostSelections : handlePick(h)
  \/ \E i \in 0..MaxToggleIdx : toggleRowSkip(i)
  \/ \E i \in 0..MaxToggleIdx : toggleColSkip(i)
  \/ \E i \in 1..(MaxToggleIdx + 1) : setDividerAt(i)
  \/ \E on \in BOOLEAN : setLastColOnly(on)
  \/ pickerHandleSave


(***************************************************************************)
(* Name editor (NameEditor.tsx): state of the component, opened to create  *)
(* a name.                                                                 *)
(***************************************************************************)
\* the texts typed or picked into the "refers to" field
RefInputs ==
  { <<"S","h","e","e","t","1","!","$","A","$","1",":","$","D","$","1","0">>,
    <<"a","1",":","d","1","0">>,
    <<"'","M","y"," ","S","h","e","e","t","'","!","B","2",":","C","5">>,
    <<"S","h","e","e","t","1","!","X","F","A","1","0","4","8","5","7","0",":","X","F","D","1","0","4","8","5","7","6">>,
    <<"S","h","e","e","t","1","!","D","1","0",":","A","1">>,
    <<"S","h","e","e","t","1","!","A","1">>,
    <<"=","S","h","e","e","t","1","!","A","1",":","B","2"," ">>,
    <<"S","h","e","e","t","1","!","A",":","D">>,
    <<"=","O","F","F","S","E","T","(","A","1",",","0",",","0",",","2",",","2",")">>,
    <<>> }

\* the names typed into the editor's name field
EditorNames == { <<"R","e","v","e","n","u","e","_","2","0","2","4">>, <<"A","1">> }

\* the values typed into the numeric inputs
NumberInputs == (0..MaxStep) \cup {25}

editorMounted == editor.mounted /\ editor.saved = <<>>

editorSetName(n) ==
  /\ editorMounted
  /\ editor' = [editor EXCEPT !.name = n, !.nameError = ""]
  /\ UNCHANGED <<picker, item, call, workbook, tasks, home>>

editorSetRefersTo(r) ==
  /\ editorMounted
  /\ editor' = [editor EXCEPT !.refersTo = r]
  /\ UNCHANGED <<picker, item, call, workbook, tasks, home>>

\* const canUseHybrid = !!parseRangeRef(refersTo)
canUseHybrid(e) == parseRangeRef(e.refersTo).ok

\* the radio group; the hybrid item is disabled without a simple reference
editorSetType(t) ==
  /\ editorMounted
  /\ t = "hybrid" => canUseHybrid(editor)
  /\ editor' = [editor EXCEPT !.type = t]
  /\ UNCHANGED <<picker, item, call, workbook, tasks, home>>

\* setSkipRows(Math.max(0, parseInt(e.target.value) || 0)), on the inputs of
\* the dynamic and the hybrid panel
editorSetSkipRows(v) ==
  /\ editorMounted
  /\ editor.type \in {"dynamic", "hybrid"}
  /\ editor' = [editor EXCEPT !.skipRows = MathMax(0, v)]
  /\ UNCHANGED <<picker, item, call, workbook, tasks, home>>

editorSetSkipCols(v) ==
  /\ editorMounted
  /\ editor.type = "dynamic"
  /\ editor' = [editor EXCEPT !.skipCols = MathMax(0, v)]
  /\ UNCHANGED <<picker, item, call, workbook, tasks, home>>

\* setFixedCols(Math.max(1, parseInt(e.target.value) || 1))
editorSetFixedCols(v) ==
  /\ editorMounted
  /\ editor.type = "hybrid"
  /\ editor' = [editor EXCEPT !.fixedCols = MathMax(1, IF v = 0 THEN 1 ELSE v)]
  /\ UNCHANGED <<picker, item, call, workbook, tasks, home>>

\* finalRef of handleSave
finalRefOf(e) ==
  IF e.type = "dynamic" /\ ~editorIsDynamicFormula(e.refersTo)
  THEN buildDynamicFormula(e.refersTo, e.skipRows, e.skipCols)
  ELSE IF e.type = "hybrid" /\ ~editorIsDynamicFormula(e.refersTo)
  THEN buildHybridFormula(e.refersTo, e.fixedCols, e.skipRows)
  ELSE passThrough(e.refersTo)

\* getPreviewFormula; null is the empty sequence of results
getPreviewFormula(e) ==
  IF trim(e.refersTo) = <<>> THEN <<>>
  ELSE IF editorIsDynamicFormula(e.refersTo) THEN <<>>
  ELSE IF e.type = "dynamic"
  THEN <<buildDynamicFormula(e.refersTo, e.skipRows, e.skipCols)>>
  ELSE IF e.type = "hybrid"
  THEN <<buildHybridFormula(e.refersTo, e.fixedCols, e.skipRows)>>
  ELSE <<>>

\* the object handed to onSave; an undefined field is the empty sequence
editorPayload(e) ==
  [name |-> e.name,
   newName |-> e.name,
   refersTo |-> finalRefOf(e),
   skipRows |-> IF e.type \in {"dynamic", "hybrid"} THEN <<e.skipRows>> ELSE <<>>,
   skipCols |-> IF e.type = "dynamic" THEN <<e.skipCols>> ELSE <<>>,
   fixedCols |-> IF e.type = "hybrid" THEN <<e.fixedCols>> ELSE <<>>]

\* the state after handleSave, given the validation error
editorSavedState(e, err) ==
  IF err # "" THEN [e EXCEPT !.nameError = err]
  ELSE IF trim(e.refersTo) = <<>> THEN [e EXCEPT !.nameError = "Reference is required"]
  ELSE IF e.type = "hybrid" /\ ~canUseHybrid(e)
  THEN [e EXCEPT !.nameError =
          "Hybrid mode requires a simple range reference (e.g. Sheet1!$A$1:$D$20)"]
  ELSE [e EXCEPT !.nameError = "", !.saved = <<editorPayload(e)>>]

editorHandleSave ==
  /\ editorMounted
  /\ editor' = editorSavedState(editor, editorValidateName(editor.name))
  /\ UNCHANGED <<picker, item, call, workbook, tasks, home>>

EditorStart ==
  [mounted |-> TRUE,
   name |-> <<>>,
   refersTo |-> <<>>,
   type |-> "fixed",
   skipRows |-> 0,
   skipCols |-> 0,
   fixedCols |-> 1,
   nameError |-> "",
   saved |-> <<>>]

PickerUnmounted == [mounted |-> FALSE]

InitEditor == picker = PickerUnmounted /\ editor = EditorStart /\ item = NoItem

NextEditor ==
  \/ \E n \in EditorNames : editorSetName(n)
  \/ \E r \in RefInputs : editorSetRefersTo(r)
  \/ \E t \in {"fixed", "dynamic", "hybrid"} : editorSetType(t)
  \/ \E v \in NumberInputs : editorSetSkipRows(v)
  \/ \E v \in NumberInputs : editorSetSkipCols(v)
  \/ \E v \in NumberInputs : editorSetFixedCols(v)
  \/ editorHandleSave

(***************************************************************************)
(* The named item of the workbook: addName writes its comment, getAllNames *)
(* reads it back through buildExcelName.                                   *)
(***************************************************************************)
DefaultOptions ==
  [comment |-> <<>>, skipRows |-> 0, skipCols |-> 0, fixedRef |-> <<>>,
   dynamicRef |-> <<>>, lastColOnly |-> FALSE, lastRowOnly |-> FALSE,
   origRange |-> <<>>, expandRows |-> FALSE, expandCols |-> FALSE,
   skippedColIndices |-> <<>>, skippedRowIndices |-> <<>>,
   colOverflowByRow |-> <<>>, rowOverflowByCol |-> <<>>]

\* every field but the column skip at its default or at one other value, in
\* all combinations
OptionGrid ==
  [comment : {<<>>},
   skipRows : {0, 12},
   skipCols : {0},
   fixedRef : {<<>>, <<"S","h","e","e","t","1","!","$","A","$","1",":","$","B","$","1","0">>},
   dynamicRef : {<<>>, <<"'","M","y"," ","S","h","e","e","t","'","!","$","C","$","1",":","$","D","$","1","0">>},
   lastColOnly : BOOLEAN,
   lastRowOnly : BOOLEAN,
   origRange : {<<>>, <<"S","h","e","e","t","1","!","A","1",":","D","1","0">>},
   expandRows : BOOLEAN,
   expandCols : BOOLEAN,
   skippedColIndices : {<<>>, <<1>>},
   skippedRowIndices : {<<>>, <<0, 2, 11>>},
   colOverflowByRow : {<<>>, <<(<<<<"2">>, 5>>), (<<<<"1","0">>, 7>>)>>},
   rowOverflowByCol : {<<>>, <<(<<<<"A">>, 3>>), (<<<<"C">>, 3>>)>>}]

\* further values of one field, the others at their defaults
OptionExtras ==
  { [DefaultOptions EXCEPT !.skipCols = 3],
    [DefaultOptions EXCEPT !.skipRows = 2, !.skipCols = 1],
    [DefaultOptions EXCEPT !.comment = <<"Q","u","a","r","t","e","r","l","y"," ","t","o","t","a","l","s">>],
    [DefaultOptions EXCEPT !.skippedColIndices = <<0, 2>>],
    [DefaultOptions EXCEPT !.colOverflowByRow = <<(<<<<"3">>, 0>>)>>],
    [DefaultOptions EXCEPT !.colOverflowByRow = <<(<<<<"2">>, 5>>), (<<<<"3">>, 5>>)>>],
    [DefaultOptions EXCEPT !.rowOverflowByCol = <<(<<<<"B">>, 1>>), (<<<<"A","A">>, 20>>)>>] }

AddNameOptions == OptionGrid \cup OptionExtras

\* the formulas handed to addName
AddNameFormulas == { <<"=","S","h","e","e","t","1","!","$","A","$","1",":","$","D","$","1","0">> }

\* addName(name, formula, ...) with its trailing parameters o: the name is
\* added for the range (the formula names no function and no union), the
\* host gives it the formula "=range" and the range address as its value,
\* and the comment is written
addName(formula, o) ==
  /\ item.stage = "absent"
  /\ item' = [stage |-> "added", options |-> o, comment |-> addNameComment(o),
              formula |-> <<"=">> \o stripLeadingEq(formula),
              value |-> [type |-> "string", text |-> stripLeadingEq(formula)]]
  /\ UNCHANGED <<picker, editor, call, workbook, tasks, home>>

\* the address buildExcelName is given: none when the item is skipped, the
\* address of the range the host resolves otherwise
resolvedAddress(namedItem, hostAddress) ==
  IF \/ isBrokenValue(namedItem.value)
     \/ isDynamicFormula(namedItem.formula)
     \/ isUnionFormula(namedItem.formula)
  THEN <<>>
  ELSE hostAddress

\* getAllNames builds the record of the item; the host resolves the range
\* addName created the name for
getAllNames ==
  /\ item.stage = "added"
  /\ item' = [stage |-> "read", options |-> item.options, comment |-> item.comment,
              formula |-> item.formula, value |-> item.value,
              record |-> buildExcelName(item, resolvedAddress(item, stripLeadingEq(item.formula)))]
  /\ UNCHANGED <<picker, editor, call, workbook, tasks, home>>

InitNames ==
  picker = PickerUnmounted /\ editor = EditorUnmounted /\ item = [stage |-> "absent"]

NextNames ==
  \/ \E f \in AddNameFormulas, o \in AddNameOptions : addName(f, o)
  \/ getAllNames

(***************************************************************************)
(* Home shows one view at a time: the picker, the editor or the list.      *)
(***************************************************************************)
Init == (InitPicker \/ InitEditor \/ InitNames) /\ call = NoCall /\ hostIdle

Next == NextPicker \/ NextEditor \/ NextNames

Spec == Init /\ [][Next]_vars

(***************************************************************************)
(* Calls of the library functions.  A call is drawn with its arguments,    *)
(* then the function returns: returned holds the result once it has.       *)
(***************************************************************************)
\* the options with every field set
FullOptions ==
  [comment |-> <<>>, skipRows |-> 12, skipCols |-> 3,
   fixedRef |-> <<"S","h","e","e","t","1","!","$","A","$","1",":","$","B","$","1","0">>,
   dynamicRef |-> <<"'","M","y"," ","S","h","e","e","t","'","!","$","C","$","1",":","$","D","$","1","0">>,
   lastColOnly |-> TRUE, lastRowOnly |-> TRUE,
   origRange |-> <<"S","h","e","e","t","1","!","A","1",":","D","1","0">>,
   expandRows |-> TRUE, expandCols |-> TRUE,
   skippedColIndices |-> <<1>>, skippedRowIndices |-> <<0, 2, 11>>,
   colOverflowByRow |-> <<(<<<<"2">>, 5>>), (<<<<"1","0">>, 7>>)>>,
   rowOverflowByCol |-> <<(<<<<"A">>, 3>>), (<<<<"C">>, 3>>)>>]

\* the options whose encodings are stripped
EncodedOptions == OptionExtras \cup {DefaultOptions, FullOptions}

\* descriptions typed by the user, none with a bracket
UserTexts ==
  { <<>>,
    <<"x">>,
    <<"Q","u","a","r","t","e","r","l","y"," ","t","o","t","a","l","s">>,
    <<"a"," "," ","b">>,
    <<"s","k","i","p",":","1",",","2">>,
    <<" ","p","a","d","d","e","d">>,
    <<"p","a","d","d","e","d"," ">>,
    <<" ">> }

\* the tags of the options o as addName joins them, the origin sentinel first
encodeOptions(o) == addNameComment([o EXCEPT !.comment = <<>>])

\* comments found on named items, written by any author
CommentInputs ==
  { <<>>,
    <<"n","o","t","e">>,
    <<" "," ","[","E","p","i","f","a","i","]"," "," ">>,
    <<"[","l","a","s","t","c","o","l","]"," ","n","o","t","e"," ","[","l","a","s","t","c","o","l","]">>,
    <<"[","E","p","i","f","a","i","]"," ","a"," ","[","s","k","i","p",":","1",",","2","]"," ","b"," ","[","s","k","i","p",":","3",",","4","]">>,
    <<"[","E","p","i","[","l","a","s","t","c","o","l","]","f","a","i","]"," ","x">>,
    <<"b","e","f","o","r","e"," ","[","f","i","x","r","e","f",":","S","h","e","e","t","1","!","$","A","$","1","]"," ","a","f","t","e","r">>,
    <<"[","r","o","w","o","v","e","r","f","l","o","w",":","A","=","3","]","[","l","a","s","t","r","o","w","]"," ","t","a","i","l"," ","[","E","p","i","f","a","i","]">>,
    <<"[","s","k","i","p",":","1",",","2","]","[","s","k","i","p",":","1",",","2","]">>,
    <<"[","E","p","i","f","a","i","]"," ","[","E","p","i","f","a","i","]"," ","t","w","i","c","e">> }

\* the calls of stripMetaTags: on an encoding followed by a user text, on a
\* comment addName writes for a user text, and on a comment of any author
StripCalls ==
  {[fn |-> "stripMetaTags", from |-> "encoded", options |-> o, userText |-> t,
    comment |-> encodeOptions(o) \o <<" ">> \o t, returned |-> <<>>]
     : o \in EncodedOptions, t \in UserTexts}
  \cup
  {[fn |-> "stripMetaTags", from |-> "addName", options |-> o, userText |-> t,
    comment |-> addNameComment([o EXCEPT !.comment = t]), returned |-> <<>>]
     : o \in EncodedOptions, t \in UserTexts}
  \cup
  {[fn |-> "stripMetaTags", from |-> "workbook", options |-> DefaultOptions,
    userText |-> <<>>, comment |-> c, returned |-> <<>>]
     : c \in CommentInputs}

stripMetaTagsCall ==
  /\ call.fn = "stripMetaTags"
  /\ call.returned = <<>>
  /\ call' = [call EXCEPT !.returned = <<stripMetaTags(call.comment)>>]
  /\ UNCHANGED <<picker, editor, item, workbook, tasks, home>>

\* the counts of an overflow map
OverflowCounts == (0..MaxCount) \cup {12}

\* the keys of colOverflowByRow are row indices, those of rowOverflowByCol
\* column letters, both in property order
RowKeys == << <<"2">>, <<"3">>, <<"1","0">> >>
ColKeys == << <<"A">>, <<"C">>, <<"A","A">> >>

\* the non-empty objects over some of the keys
keysWithin(base, S) == SelectSeq(base, LAMBDA k : k \in S)

mapsOver(keys) ==
  { [i \in 1..Len(keys) |-> <<keys[i], v[i]>>] : v \in [1..Len(keys) -> OverflowCounts] }

OverflowMaps(base) ==
  UNION { mapsOver(keysWithin(base, S)) :
            S \in (SUBSET {base[i] : i \in 1..Len(base)}) \ {{}} }

OverflowCalls ==
  {[fn |-> "buildColOverflowTag", overflow |-> m, returned |-> <<>>] : m \in OverflowMaps(RowKeys)}
  \cup
  {[fn |-> "buildRowOverflowTag", overflow |-> m, returned |-> <<>>] : m \in OverflowMaps(ColKeys)}

buildColOverflowTagCall ==
  /\ call.fn = "buildColOverflowTag"
  /\ call.returned = <<>>
  /\ call' = [call EXCEPT !.returned = <<buildColOverflowTag(call.overflow)>>]
  /\ UNCHANGED <<picker, editor, item, workbook, tasks, home>>

buildRowOverflowTagCall ==
  /\ call.fn = "buildRowOverflowTag"
  /\ call.returned = <<>>
  /\ call' = [call EXCEPT !.returned = <<buildRowOverflowTag(call.overflow)>>]
  /\ UNCHANGED <<picker, editor, item, workbook, tasks, home>>

\* the tag that was built is parsed as the comment of the item
parseColOverflowTagCall ==
  /\ call.fn = "buildColOverflowTag"
  /\ call.returned # <<>>
  /\ call' = [fn |-> "parseColOverflowTag", overflow |-> call.overflow,
              comment |-> call.returned[1],
              returned |-> <<parseColOverflowTag(call.returned[1])>>]
  /\ UNCHANGED <<picker, editor, item, workbook, tasks, home>>

parseRowOverflowTagCall ==
  /\ call.fn = "buildRowOverflowTag"
  /\ call.returned # <<>>
  /\ call' = [fn |-> "parseRowOverflowTag", overflow |-> call.overflow,
              comment |-> call.returned[1],
              returned |-> <<parseRowOverflowTag(call.returned[1])>>]
  /\ UNCHANGED <<picker, editor, item, workbook, tasks, home>>

\* formulas of named items, written by the add-in or in the host
FormulaInputs ==
  { <<"=","S","h","e","e","t","1","!","$","A","$","1",":","$","D","$","1","0">>,
    <<"=","S","h","e","e","t","1","!","$","A","$","1",":","$","B","$","2",",","S","h","e","e","t","1","!","$","D","$","1",":","$","E","$","2">>,
    <<"=","O","F","F","S","E","T","(","S","h","e","e","t","1","!","$","A","$","1",",","0",",","0",",","C","O","U","N","T","A","(","S","h","e","e","t","1","!","$","A",":","$","A",")",",","4",")">>,
    <<"=","I","N","D","I","R","E","C","T","(","\"","A","1","\"",")">>,
    <<"=","S","h","e","e","t","1","!","$","A","$","1",":","$","B","$","1","0",",","O","F","F","S","E","T","(","S","h","e","e","t","1","!","$","C","$","1",",","0",",","0",",","1","0",",","2",")">>,
    <<"=","s","h","e","e","t","1","!","$","a","$","1",":","$","b","$","1","0",",","o","f","f","s","e","t","(","s","h","e","e","t","1","!","$","c","$","1",",","0",",","0",",","1","0",",","2",")">>,
    <<"=","S","h","e","e","t","1","!","$","A","$","1",":","$","B","$","1","0",","," ","O","F","F","S","E","T","(","S","h","e","e","t","1","!","$","C","$","1",",","0",",","0",",","1","0",",","2",")">>,
    <<"=","S","h","e","e","t","1","!","$","A","$","1",":","$","A","$","1","0",",","I","N","D","E","X","(","S","h","e","e","t","1","!","$","B",":","$","B",",","1",")">>,
    <<"=","O","F","F","S","E","T","(","S","h","e","e","t","1","!","$","C","$","1",",","0",",","0",",","1","0",",","2",")",",","S","h","e","e","t","1","!","$","A","$","1",":","$","B","$","1","0">>,
    <<"=","S","U","M","(","S","h","e","e","t","1","!","$","A","$","1",",","O","F","F","S","E","T","(","S","h","e","e","t","1","!","$","B","$","1",",","0",",","0",",","2",",","2",")",")">>,
    <<"=","I","N","D","E","X","(","S","h","e","e","t","1","!","$","A",":","$","A",",","1",")",":","I","N","D","E","X","(","S","h","e","e","t","1","!","$","A",":","$","A",",","9",")">> }

\* the reference tags a listed name may carry
RefTagInputs ==
  { [fixedRef |-> <<>>, dynamicRef |-> <<>>],
    [fixedRef |-> <<"S","h","e","e","t","1","!","$","A","$","1",":","$","B","$","1","0">>, dynamicRef |-> <<"S","h","e","e","t","1","!","$","C","$","1",":","$","D","$","1","0">>] }

RangeTypeCalls ==
  {[fn |-> "detectRangeType", formula |-> f, returned |-> <<>>] : f \in FormulaInputs}
  \cup
  {[fn |-> "getRangeType",
    n |-> [formula |-> f, fixedRef |-> t.fixedRef, dynamicRef |-> t.dynamicRef],
    returned |-> <<>>] : f \in FormulaInputs, t \in RefTagInputs}

detectRangeTypeCall ==
  /\ call.fn = "detectRangeType"
  /\ call.returned = <<>>
  /\ call' = [call EXCEPT !.returned = <<detectRangeType(call.formula)>>]
  /\ UNCHANGED <<picker, editor, item, workbook, tasks, home>>

getRangeTypeCall ==
  /\ call.fn = "getRangeType"
  /\ call.returned = <<>>
  /\ call' = [call EXCEPT !.returned = <<getRangeType(call.n)>>]
  /\ UNCHANGED <<picker, editor, item, workbook, tasks, home>>

\* values the host reports for a named item
ValueInputs ==
  { [type |-> "string", text |-> <<"#","R","E","F","!">>],
    [type |-> "string", text |-> <<"#","r","e","f","!">>],
    [type |-> "string", text |-> <<"S","h","e","e","t","1","!","#","R","E","F","!">>],
    [type |-> "string", text |-> <<"S","h","e","e","t","1","!","$","A","$","1",":","$","D","$","1","0">>],
    [type |-> "string", text |-> <<>>],
    [type |-> "number", num |-> 1000] }

\* formulas of the items whose health is classified
HealthFormulas ==
  { <<>>,
    <<"=","S","h","e","e","t","1","!","$","A","$","1",":","$","D","$","1","0">>,
    <<"=","S","h","e","e","t","1","!","$","Z","$","9","9">>,
    <<"=","S","h","e","e","t","1","!","$","A","$","1",":","$","B","$","2",",","S","h","e","e","t","1","!","$","D","$","1",":","$","E","$","2">>,
    <<"=","O","F","F","S","E","T","(","S","h","e","e","t","1","!","$","A","$","1",",","0",",","0",",","C","O","U","N","T","A","(","S","h","e","e","t","1","!","$","A",":","$","A",")",",","4",")">>,
    <<"=","i","n","d","e","x","(","S","h","e","e","t","1","!","$","A",":","$","A",",","1",")">> }

\* the address handed to buildExcelName: none, or the one the host resolved
AddressResolutions == { <<>>, <<"S","h","e","e","t","1","!","$","A","$","1",":","$","D","$","1","0">> }

BuildNameCalls ==
  {[fn |-> "buildExcelName",
    namedItem |-> [comment |-> c, formula |-> f, value |-> v],
    address |-> a, returned |-> <<>>]
     : c \in {<<"O","l","d"," ","r","e","f">>, <<"[","E","p","i","f","a","i","]"," ","T","o","t","a","l"," ","[","s","k","i","p",":","1",",","0","]">>},
       f \in HealthFormulas, v \in ValueInputs, a \in AddressResolutions}

buildExcelNameCall ==
  /\ call.fn = "buildExcelName"
  /\ call.returned = <<>>
  /\ call' = [call EXCEPT !.returned = <<buildExcelName(call.namedItem, call.address)>>]
  /\ UNCHANGED <<picker, editor, item, workbook, tasks, home>>

\* candidate names typed into a name field
NameInputs ==
  { <<>>, <<" ">>, <<" "," "," ">>,
    <<"A","1">>, <<"1","x">>, <<"m","y"," ","n","a","m","e">>, <<"R","e","v","e","n","u","e","_","2","0","2","4">>,
    <<"_","x">>, <<"a",".","b">>, <<".","a">>, <<"a","-","b">>, <<"x">>,
    <<"a","b","c","1","2","3">>, <<"A","B","C","D","1">>, <<"R","2","D","2">>, <<"X","F","D","1","0","4","8","5","7","6">>, <<"x","1","y">>,
    <<"S","a","l","e","s",".","2","0","2","4","_","Q","1">>, <<"n","a","m","e"," ">>, <<"9">>, <<"a","$","b">>,
    <<"a","\\","b">>, <<"\\","x">>, <<"\\">> }

ValidateCalls ==
  {[fn |-> "validateName", component |-> c, n |-> n, returned |-> <<>>]
     : c \in {"NameEditor", "RangePicker"}, n \in NameInputs}

editorValidateNameCall ==
  /\ call.fn = "validateName"
  /\ call.component = "NameEditor"
  /\ call.returned = <<>>
  /\ call' = [call EXCEPT !.returned = <<editorValidateName(call.n)>>]
  /\ UNCHANGED <<picker, editor, item, workbook, tasks, home>>

pickerValidateNameCall ==
  /\ call.fn = "validateName"
  /\ call.component = "RangePicker"
  /\ call.returned = <<>>
  /\ call' = [call EXCEPT !.returned = <<pickerValidateName(call.n)>>]
  /\ UNCHANGED <<picker, editor, item, workbook, tasks, home>>

\* address texts, each with the range it denotes in the form
\* [Sheet!]ColRow[:ColRow] (none when the text is not of that form)
AddressInputs ==
  { [text |-> <<"S","h","e","e","t","1","!","A","1",":","D","1","0">>, range |-> << [sheet |-> <<"S","h","e","e","t","1">>, startCol |-> <<"A">>, startRow |-> 1, endCol |-> <<"D">>, endRow |-> 10] >>],
    [text |-> <<"S","h","e","e","t","1","!","$","A","$","1",":","$","D","$","1","0">>, range |-> << [sheet |-> <<"S","h","e","e","t","1">>, startCol |-> <<"A">>, startRow |-> 1, endCol |-> <<"D">>, endRow |-> 10] >>],
    [text |-> <<"S","h","e","e","t","1","!","$","A","1",":","D","$","1","0">>, range |-> << [sheet |-> <<"S","h","e","e","t","1">>, startCol |-> <<"A">>, startRow |-> 1, endCol |-> <<"D">>, endRow |-> 10] >>],
    [text |-> <<"'","M","y"," ","S","h","e","e","t","'","!","B","2",":","C","5">>, range |-> << [sheet |-> <<"M","y"," ","S","h","e","e","t">>, startCol |-> <<"B">>, startRow |-> 2, endCol |-> <<"C">>, endRow |-> 5] >>],
    [text |-> <<"S","h","e","e","t","1","!","C","5">>, range |-> << [sheet |-> <<"S","h","e","e","t","1">>, startCol |-> <<"C">>, startRow |-> 5, endCol |-> <<"C">>, endRow |-> 5] >>],
    [text |-> <<"S","h","e","e","t","1","!","$","C","$","5">>, range |-> << [sheet |-> <<"S","h","e","e","t","1">>, startCol |-> <<"C">>, startRow |-> 5, endCol |-> <<"C">>, endRow |-> 5] >>],
    [text |-> <<"'","M","y"," ","S","h","e","e","t","'","!","$","X","F","D","$","1","0","4","8","5","7","6">>, range |-> << [sheet |-> <<"M","y"," ","S","h","e","e","t">>, startCol |-> <<"X","F","D">>, startRow |-> 1048576, endCol |-> <<"X","F","D">>, endRow |-> 1048576] >>],
    [text |-> <<"A","1",":","B","2">>, range |-> << [sheet |-> <<>>, startCol |-> <<"A">>, startRow |-> 1, endCol |-> <<"B">>, endRow |-> 2] >>],
    [text |-> <<"$","A","$","1",":","$","B","$","2">>, range |-> << [sheet |-> <<>>, startCol |-> <<"A">>, startRow |-> 1, endCol |-> <<"B">>, endRow |-> 2] >>],
    [text |-> <<"C","5">>, range |-> << [sheet |-> <<>>, startCol |-> <<"C">>, startRow |-> 5, endCol |-> <<"C">>, endRow |-> 5] >>],
    [text |-> <<"S","h","e","e","t","1","!","D","1","0",":","A","1">>, range |-> << [sheet |-> <<"S","h","e","e","t","1">>, startCol |-> <<"D">>, startRow |-> 10, endCol |-> <<"A">>, endRow |-> 1] >>],
    [text |-> <<>>, range |-> <<>>],
    [text |-> <<"S","h","e","e","t","1","!">>, range |-> <<>>],
    [text |-> <<"S","h","e","e","t","1","!","A",":","D">>, range |-> <<>>],
    [text |-> <<"S","h","e","e","t","1","!","A","1",":">>, range |-> <<>>],
    [text |-> <<"S","h","e","e","t","1","!","1","A">>, range |-> <<>>],
    [text |-> <<"h","e","l","l","o">>, range |-> <<>>],
    [text |-> <<"S","h","e","e","t","1","!","A","1",":","B","2",":","C","3">>, range |-> <<>>],
    [text |-> <<"S","h","e","e","t","1","!","A","1",";","B","2">>, range |-> <<>>],
    [text |-> <<"!","A","1">>, range |-> <<>>],
    [text |-> <<"S","h","e","e","t","1","!","A","$","$","1">>, range |-> <<>>],
    [text |-> <<"=","O","F","F","S","E","T","(","A","1",",","0",",","0",",","2",",","2",")">>, range |-> <<>>] }

ParseCalls ==
  {[fn |-> f, text |-> a.text, range |-> a.range, threw |-> FALSE, returned |-> <<>>]
     : f \in {"parseRangeAddress", "parseRangeRef"}, a \in AddressInputs}

\* parseRangeAddress returns the range or throws the Error
parseRangeAddressCall ==
  /\ call.fn = "parseRangeAddress"
  /\ call.returned = <<>>
  /\ ~call.threw
  /\ call' = [call EXCEPT
                !.threw = ~parseRangeAddress(call.text).ok,
                !.returned = IF parseRangeAddress(call.text).ok
                             THEN <<parseRangeAddress(call.text)>> ELSE <<>>]
  /\ UNCHANGED <<picker, editor, item, workbook, tasks, home>>

\* parseRangeRef returns the range or null
parseRangeRefCall ==
  /\ call.fn = "parseRangeRef"
  /\ call.returned = <<>>
  /\ call' = [call EXCEPT !.returned = <<parseRangeRef(call.text)>>]
  /\ UNCHANGED <<picker, editor, item, workbook, tasks, home>>

\* the selections and skip sets whose leading skips are counted
SkipCountCalls ==
  {[fn |-> f, selectionData |-> [rowCount |-> t, colCount |-> t], skipped |-> S,
    returned |-> <<>>]
     : f \in {"topSkipCount", "leftSkipCount"}, t \in 0..MaxTotal,
       S \in SUBSET (0..(MaxTotal - 1))}

topSkipCountCall ==
  /\ call.fn = "topSkipCount"
  /\ call.returned = <<>>
  /\ call' = [call EXCEPT !.returned = <<topSkipCount(call.selectionData, call.skipped)>>]
  /\ UNCHANGED <<picker, editor, item, workbook, tasks, home>>

leftSkipCountCall ==
  /\ call.fn = "leftSkipCount"
  /\ call.returned = <<>>
  /\ call' = [call EXCEPT !.returned = <<leftSkipCount(call.selectionData, call.skipped)>>]
  /\ UNCHANGED <<picker, editor, item, workbook, tasks, home>>

\* the comments updateName finds stored: written by addName, typed in the
\* host's name manager, with a tag repeated
StoredComments ==
  { addNameComment([FullOptions EXCEPT !.comment = <<"T","o","t","a","l","s">>]),
    addNameComment(DefaultOptions),
    addNameComment([DefaultOptions EXCEPT !.comment = <<"Q","u","a","r","t","e","r","l","y"," ","t","o","t","a","l","s">>, !.skipRows = 2]),
    <<"O","l","d"," ","r","e","f">>,
    <<"n","o","t","e"," ","[","s","k","i","p",":","2",",","1","]">> } \cup CommentInputs

\* the updates record with no field set
NoUpdates ==
  [comment |-> <<>>, skipRows |-> <<>>, skipCols |-> <<>>, fixedRef |-> <<>>,
   dynamicRef |-> <<>>, lastColOnly |-> <<>>, lastRowOnly |-> <<>>,
   origRange |-> <<>>, expandRows |-> <<>>, expandCols |-> <<>>,
   skippedColIndices |-> <<>>, skippedRowIndices |-> <<>>,
   colOverflowByRow |-> <<>>, rowOverflowByCol |-> <<>>]

\* updates records: none, one field, the fields the editor's save sets
UpdateInputs ==
  { NoUpdates,
    [NoUpdates EXCEPT !.comment = <<<<"N","e","w"," ","n","o","t","e">>>>],
    [NoUpdates EXCEPT !.comment = << <<>> >>],
    [NoUpdates EXCEPT !.comment = <<<<" ","p","a","d","d","e","d"," ">>>>],
    [NoUpdates EXCEPT !.comment = <<<<"s","e","e"," ","[","l","a","s","t","r","o","w","]">>>>],
    [NoUpdates EXCEPT !.skipRows = <<3>>],
    [NoUpdates EXCEPT !.skipCols = <<0>>],
    [NoUpdates EXCEPT !.fixedRef = << <<>> >>],
    [NoUpdates EXCEPT !.dynamicRef = <<<<"S","h","e","e","t","2","!","$","A","$","1",":","$","A","$","5">>>>],
    [NoUpdates EXCEPT !.lastColOnly = <<TRUE>>],
    [NoUpdates EXCEPT !.lastRowOnly = <<FALSE>>],
    [NoUpdates EXCEPT !.origRange = <<<<"S","h","e","e","t","2","!","A","1",":","B","5">>>>],
    [NoUpdates EXCEPT !.expandRows = <<FALSE>>, !.expandCols = <<TRUE>>],
    [NoUpdates EXCEPT !.skippedColIndices = << <<0, 3>> >>, !.skippedRowIndices = << <<>> >>],
    [NoUpdates EXCEPT !.colOverflowByRow = << <<(<<<<"4">>, 2>>)>> >>, !.rowOverflowByCol = << <<>> >>],
    [NoUpdates EXCEPT !.comment = <<<<"E","d","i","t","e","d">>>>, !.skipRows = <<1>>, !.skipCols = <<1>>,
                      !.fixedRef = << <<>> >>, !.dynamicRef = << <<>> >>,
                      !.lastColOnly = <<FALSE>>, !.lastRowOnly = <<TRUE>>] }

UpdateCalls ==
  {[fn |-> "updateName", comment |-> c, updates |-> u, returned |-> <<>>, again |-> <<>>]
     : c \in StoredComments, u \in UpdateInputs}

\* updateName rewrites the stored comment
updateNameCall ==
  /\ call.fn = "updateName"
  /\ call.returned = <<>>
  /\ call' = [call EXCEPT !.returned = <<updateNameComment(call.comment, call.updates)>>]
  /\ UNCHANGED <<picker, editor, item, workbook, tasks, home>>

\* updateName is called a second time with the same updates, on the comment
\* the first call wrote
updateNameAgainCall ==
  /\ call.fn = "updateName"
  /\ call.returned # <<>>
  /\ call.again = <<>>
  /\ call' = [call EXCEPT !.again = <<updateNameComment(call.returned[1], call.updates)>>]
  /\ UNCHANGED <<picker, editor, item, workbook, tasks, home>>

(***************************************************************************)
(* Names derived from charts (excel-charts.ts).                            *)
(***************************************************************************)
\* String.prototype.toLowerCase
toLowerCase(s) ==
  [i \in 1..Len(s) |->
     IF s[i] \in UpperSet THEN LowerAZ[CHOOSE k \in 1..26 : UpperAZ[k] = s[i]]
     ELSE s[i]]

\* the class [A-Za-z0-9_.\\]
ChartNameChars == LetterSet \cup DigitSet \cup {"_", ".", "\\"}

\* .replace(/[^A-Za-z0-9_.\\]/g, "_")
replaceInvalid(title) ==
  [i \in 1..Len(title) |-> IF title[i] \in ChartNameChars THEN title[i] ELSE "_"]

\* .replace(/^(\d)/, "_$1")
prefixDigit(s) == IF s # <<>> /\ s[1] \in DigitSet THEN <<"_">> \o s ELSE s

\* .replace(/_+/g, "_")
RECURSIVE collapseUnderscores(_)
collapseUnderscores(s) ==
  IF Len(s) < 2 THEN s
  ELSE IF s[1] = "_" /\ s[2] = "_" THEN collapseUnderscores(Tail(s))
  ELSE <<s[1]>> \o collapseUnderscores(Tail(s))

dropTrailingUnderscore(s) ==
  IF s # <<>> /\ s[Len(s)] = "_" THEN SubSeq(s, 1, Len(s) - 1) ELSE s

\* .replace(/^_|_$/g, "")
trimUnderscores(s) ==
  dropTrailingUnderscore(IF s # <<>> /\ s[1] = "_" THEN Tail(s) ELSE s)

\* ... || "ChartName"
orChartName(s) == IF s = <<>> THEN <<"C","h","a","r","t","N","a","m","e">> ELSE s

sanitizeChartTitle(title) ==
  orChartName(trimUnderscores(collapseUnderscores(prefixDigit(replaceInvalid(title)))))

\* chart.title?.text || fallbackTitle
chartTitleOf(text, fallbackTitle) == IF text # <<>> THEN text ELSE fallbackTitle

\* names.items.map(n => n.name.toLowerCase())
existingOf(names) == [i \in 1..Len(names) |-> toLowerCase(names[i])]

\* existing.includes(name)
existingIncludes(existing, name) == \E i \in 1..Len(existing) : existing[i] = name

\* the while loop of createNameFromChart, entered with rangeName and suffix
RECURSIVE suffixSearch(_, _, _, _)
suffixSearch(baseName, existing, rangeName, suffix) ==
  IF existingIncludes(existing, toLowerCase(rangeName))
  THEN suffixSearch(baseName, existing, baseName \o <<"_">> \o numStr(suffix + 1), suffix + 1)
  ELSE rangeName

\* the arguments createNameFromChart passes to addName
chartNameArgs(title, address, existing) ==
  [threw |-> FALSE,
   rangeName |-> suffixSearch(sanitizeChartTitle(title), existing, sanitizeChartTitle(title), 1),
   formula |-> <<"=">> \o address,
   comment |-> <<"S","o","u","r","c","e",":"," ">> \o title]

\* createNameFromChart: no series yields a data range, or the name is added
createNameFromChart(c) ==
  IF c.rangeAddresses = 0 THEN [threw |-> TRUE]
  ELSE chartNameArgs(chartTitleOf(c.titleText, c.fallbackTitle), c.address, existingOf(c.names))

\* the titles of charts
ChartTitles ==
  { <<"2","0","2","4"," ","S","a","l","e","s">>, <<"S","a","l","e","s"," ","C","h","a","r","t">>, <<".","a">>, <<>>, <<"_","_","_">>, <<"Q","1","/","Q","2"," ","(","n","e","t",")">>,
    <<"a","\\","b">>, <<"9">>, <<"_","x","_">>, <<"C","h","a","r","t"," ","1">> }

\* the names of the workbook when the chart is read
ChartWorkbookNames ==
  { <<>>,
    << <<"S","a","l","e","s","_","C","h","a","r","t">> >>,
    << <<"S","A","L","E","S","_","C","H","A","R","T">>, <<"s","a","l","e","s","_","c","h","a","r","t","_","2">> >>,
    << <<"S","a","l","e","s","_","C","h","a","r","t","_","2">>, <<"C","h","a","r","t","N","a","m","e">>, <<"2","0","2","4","_","S","a","l","e","s">> >>,
    << <<"c","h","a","r","t","n","a","m","e">>, <<"C","H","A","R","T","N","A","M","E","_","2">>, <<"C","h","a","r","t","N","a","m","e","_","3">>, <<"C","h","a","r","t","_","1">> >> }

ChartCalls ==
  {[fn |-> "sanitizeChartTitle", title |-> t, returned |-> <<>>] : t \in ChartTitles}
  \cup
  {[fn |-> "createNameFromChart", titleText |-> t, fallbackTitle |-> fb, names |-> ns,
    rangeAddresses |-> k, address |-> <<"S","h","e","e","t","1","!","A","1",":","B","5">>, returned |-> <<>>]
     : t \in ChartTitles, fb \in {<<"C","h","a","r","t"," ","1">>, <<"S","a","l","e","s"," ","C","h","a","r","t">>}, ns \in ChartWorkbookNames, k \in 0..1}

sanitizeChartTitleCall ==
  /\ call.fn = "sanitizeChartTitle"
  /\ call.returned = <<>>
  /\ call' = [call EXCEPT !.returned = <<sanitizeChartTitle(call.title)>>]
  /\ UNCHANGED <<picker, editor, item, workbook, tasks, home>>

createNameFromChartCall ==
  /\ call.fn = "createNameFromChart"
  /\ call.returned = <<>>
  /\ call' = [call EXCEPT !.returned = <<createNameFromChart(call)>>]
  /\ UNCHANGED <<picker, editor, item, workbook, tasks, home>>

LibCalls ==
  ChartCalls \cup UpdateCalls \cup StripCalls \cup OverflowCalls \cup RangeTypeCalls \cup BuildNameCalls \cup ValidateCalls
    \cup ParseCalls \cup SkipCountCalls

InitLib ==
  /\ picker = PickerUnmounted
  /\ editor = EditorUnmounted
  /\ item = NoItem
  /\ hostIdle
  /\ call \in LibCalls

NextLib ==
  \/ stripMetaTagsCall
  \/ buildColOverflowTagCall
  \/ buildRowOverflowTagCall
  \/ parseColOverflowTagCall
  \/ parseRowOverflowTagCall
  \/ detectRangeTypeCall
  \/ getRangeTypeCall
  \/ buildExcelNameCall
  \/ editorValidateNameCall
  \/ pickerValidateNameCall
  \/ parseRangeAddressCall
  \/ parseRangeRefCall
  \/ topSkipCountCall
  \/ leftSkipCountCall
  \/ updateNameCall
  \/ updateNameAgainCall
  \/ sanitizeChartTitleCall
  \/ createNameFromChartCall

SpecLib == InitLib /\ [][NextLib]_vars

(***************************************************************************)
(* Calls of the column codec: a column text is converted to its number and *)
(* the number back, a number to its column text and the text back.         *)
(***************************************************************************)
\* the upper-case letters up to the letter c
lettersUpTo(c) == {l \in UpperSet : charCode(l) <= charCode(c)}

\* the column texts A .. XFD: one or two letters, or three letters not
\* after XFD in the order of the alphabet
UpperColumns ==
  {<<a>> : a \in UpperSet}
  \cup {<<a, b>> : a \in UpperSet, b \in UpperSet}
  \cup {<<a, b, c>> : a \in lettersUpTo("W"), b \in UpperSet, c \in UpperSet}
  \cup {<<"X", b, c>> : b \in lettersUpTo("E"), c \in UpperSet}
  \cup {<<"X", "F", c>> : c \in lettersUpTo("D")}

\* column texts as they are typed, with lower-case letters
TypedColumns ==
  {<<a>> : a \in LowerSet}
  \cup { <<"a","b">>, <<"a","A">>, <<"A","b">>, <<"x","f","d">>, <<"X","f","d">> }

ColumnCalls ==
  {[fn |-> "colToNum", start |-> "col", col |-> c, num |-> 0, returned |-> <<>>]
     : c \in UpperColumns \cup TypedColumns}
  \cup
  {[fn |-> "numToCol", start |-> "num", col |-> <<>>, num |-> n, returned |-> <<>>]
     : n \in 1..MaxColumn}

colToNumCall ==
  /\ call.fn = "colToNum"
  /\ call.start = "col"
  /\ call.returned = <<>>
  /\ call' = [call EXCEPT !.returned = <<colToNum(call.col)>>]
  /\ UNCHANGED <<picker, editor, item, workbook, tasks, home>>

numToColCall ==
  /\ call.fn = "numToCol"
  /\ call.start = "num"
  /\ call.returned = <<>>
  /\ call' = [call EXCEPT !.returned = <<numToCol(call.num)>>]
  /\ UNCHANGED <<picker, editor, item, workbook, tasks, home>>

\* the number colToNum returned is handed to numToCol
numToColOfResult ==
  /\ call.fn = "colToNum"
  /\ call.start = "col"
  /\ call.returned # <<>>
  /\ call' = [call EXCEPT !.fn = "numToCol", !.num = call.returned[1],
                          !.returned = <<numToCol(call.returned[1])>>]
  /\ UNCHANGED <<picker, editor, item, workbook, tasks, home>>

\* the text numToCol returned is handed to colToNum
colToNumOfResult ==
  /\ call.fn = "numToCol"
  /\ call.start = "num"
  /\ call.returned # <<>>
  /\ call' = [call EXCEPT !.fn = "colToNum", !.col = call.returned[1],
                          !.returned = <<colToNum(call.returned[1])>>]
  /\ UNCHANGED <<picker, editor, item, workbook, tasks, home>>

InitColumns ==
  /\ picker = PickerUnmounted
  /\ editor = EditorUnmounted
  /\ item = NoItem
  /\ hostIdle
  /\ call \in ColumnCalls

NextColumns ==
  \/ colToNumCall
  \/ numToColCall
  \/ numToColOfResult
  \/ colToNumOfResult

SpecColumns == InitColumns /\ [][NextColumns]_vars



(***************************************************************************)
(* Health of the workbook's names (excel-names.ts): the list getAllNames    *)
(* returns and the bulk delete of the broken names.  A named item of the   *)
(* host has a name, a scope (Workbook or a sheet), a formula, a value, a   *)
(* comment and the address of the range the host resolves it to, none when *)
(* the host resolves no range (getRangeOrNullObject gives the null object, *)
(* getRange throws).                                                       *)
(***************************************************************************)
WORKBOOK_SCOPE == "Workbook"

\* the health variants of a named item: plain, window and union formulas, a
\* sound value or the error value, a range that resolves or not
HealthVariants ==
  [formula : { <<"=","S","h","e","e","t","1","!","$","A","$","1",":","$","D","$","1","0">>,
               <<"=","O","F","F","S","E","T","(","S","h","e","e","t","1","!","$","A","$","1",",","0",",","0",",","C","O","U","N","T","A","(","S","h","e","e","t","1","!","$","A",":","$","A",")",",","4",")">>,
               <<"=","S","h","e","e","t","1","!","$","A","$","1",":","$","B","$","2",",","S","h","e","e","t","1","!","$","D","$","1",":","$","E","$","2">> },
   value : { [type |-> "number", num |-> 1000], [type |-> "string", text |-> <<"#","R","E","F","!">>] },
   range : { <<>>, <<"S","h","e","e","t","1","!","$","A","$","1",":","$","D","$","1","0">> }]

namedItemOf(name, scope, v) ==
  [name |-> name, scope |-> scope, formula |-> v.formula, value |-> v.value,
   range |-> v.range, comment |-> <<"O","l","d"," ","r","e","f">>]

\* the names a workbook may hold: a workbook-scoped one, a sheet-scoped one
HealthItems(name, scope) == { {} } \cup { {namedItemOf(name, scope, v)} : v \in HealthVariants }

HealthWorkbooks ==
  {[attached |-> TRUE, nullObjectApi |-> api, names |-> W \cup S]
     : api \in BOOLEAN,
       W \in HealthItems(<<"R","e","v","e","n","u","e">>, WORKBOOK_SCOPE),
       S \in HealthItems(<<"C","o","s","t","s">>, "Sheet1")}

\* one entry of the list getAllNames returns: the item is skipped (no range
\* is asked for) or the host resolves its range, with getRangeOrNullObject
\* or with getRange in a try, and buildExcelName classifies it
listedName(n) ==
  [name |-> n.name, scope |-> n.scope,
   status |-> buildExcelName(n, resolvedAddress(n, n.range)).status]

getAllNamesOf(wb) == { listedName(n) : n \in wb.names }

\* hasNullObjectApi of deleteBrokenNames: read off the first workbook-scoped
\* item, false when there is none
hasNullObjectApi(wb) == wb.nullObjectApi /\ (\E n \in wb.names : n.scope = WORKBOOK_SCOPE)

\* an item deleteBrokenNames pushes to toDelete
isPushedToDelete(n, api) ==
  /\ ~isDynamicFormula(toUpperCase(n.formula))
  /\ (isBrokenValue(n.value) \/ (api /\ n.range = <<>>))

toDelete(wb) == { n \in wb.names : isPushedToDelete(n, hasNullObjectApi(wb)) }

\* the query of useNames is fetched: Home holds the list
refetchNames ==
  /\ workbook.attached
  /\ home.shown
  /\ home.names # <<getAllNamesOf(workbook)>>
  /\ home' = [home EXCEPT !.names = <<getAllNamesOf(workbook)>>]
  /\ UNCHANGED <<picker, editor, item, call, workbook, tasks>>

\* deleteBrokenNames deletes the items of toDelete and returns their number
deleteBrokenNames ==
  /\ workbook.attached
  /\ tasks = NoTasks
  /\ workbook' = [workbook EXCEPT !.names = workbook.names \ toDelete(workbook)]
  /\ tasks' = [running |-> FALSE, fn |-> "deleteBrokenNames",
               returned |-> <<Cardinality(toDelete(workbook))>>]
  /\ UNCHANGED <<picker, editor, item, call, home>>

InitHealth ==
  /\ picker = PickerUnmounted
  /\ editor = EditorUnmounted
  /\ item = NoItem
  /\ call = NoCall
  /\ workbook \in HealthWorkbooks
  /\ tasks = NoTasks
  /\ home = [shown |-> TRUE, names |-> <<>>]

NextHealth == refetchNames \/ deleteBrokenNames

SpecHealth == InitHealth /\ [][NextHealth]_vars

(***************************************************************************)
(* Editing, claiming and deleting names from Home (Home.tsx, use-excel.ts, *)
(* excel-names.ts).  Each library function is an Excel.run batch: it       *)
(* queues its reads, awaits ctx.sync(), queues its writes and awaits       *)
(* ctx.sync() again; the host serves one sync at a time and other batches  *)
(* may be served between the two.  A task is at stage idle, loading (first *)
(* sync awaited), loaded (second sync awaited), done or failed (the sync   *)
(* threw: the item is not in the collection).                              *)
(***************************************************************************)
IdleTask == [stage |-> "idle"]

hasItem(wb, name, scope) == \E n \in wb.names : n.name = name /\ n.scope = scope

getItem(wb, name, scope) == CHOOSE n \in wb.names : n.name = name /\ n.scope = scope

\* scope && scope !== "Workbook" ? worksheets.getItem(scope).names : workbook.names
collectionOf(scope) == IF scope # "" /\ scope # WORKBOOK_SCOPE THEN scope ELSE WORKBOOK_SCOPE

\* the workbooks Home edits: Revenue in the workbook scope, with or without
\* the origin marker, Revenue in the scope of Sheet1, Costs
EditWorkbooks ==
  {[attached |-> TRUE, nullObjectApi |-> TRUE, names |-> A \cup B \cup C]
     : A \in { {} } \cup { {[name |-> <<"R","e","v","e","n","u","e">>, scope |-> WORKBOOK_SCOPE,
                              formula |-> <<"=","S","h","e","e","t","1","!","$","A","$","1",":","$","D","$","1","0">>,
                              value |-> [type |-> "number", num |-> 1000],
                              range |-> <<"S","h","e","e","t","1","!","$","A","$","1",":","$","D","$","1","0">>, comment |-> c]}
                              : c \in {<<"n","o","t","e">>, <<"[","E","p","i","f","a","i","]"," ","n","o","t","e"," ","[","s","k","i","p",":","2",",","0","]"," ","[","l","a","s","t","c","o","l","]">>} },
       B \in { {}, {[name |-> <<"R","e","v","e","n","u","e">>, scope |-> "Sheet1",
                      formula |-> <<"=","S","h","e","e","t","1","!","$","B","$","1",":","$","B","$","5">>,
                      value |-> [type |-> "number", num |-> 500],
                      range |-> <<"S","h","e","e","t","1","!","$","B","$","1",":","$","B","$","5">>, comment |-> <<"O","l","d"," ","r","e","f">>]} },
       C \in { {}, {[name |-> <<"C","o","s","t","s">>, scope |-> WORKBOOK_SCOPE,
                      formula |-> <<"=","S","h","e","e","t","1","!","$","F","$","1",":","$","F","$","5">>,
                      value |-> [type |-> "number", num |-> 7],
                      range |-> <<"S","h","e","e","t","1","!","$","F","$","1",":","$","F","$","5">>, comment |-> <<"[","E","p","i","f","a","i","]">>]} }}

\* what the editor hands to onSave for an edited name: the reference, the
\* comment, the skips of a dynamic range, the new name when it was retyped
SaveInputs ==
  { [newName |-> <<>>, refersTo |-> <<<<"=","S","h","e","e","t","1","!","$","A","$","1",":","$","D","$","2","0">>>>,
     updates |-> [NoUpdates EXCEPT !.comment = <<<<"E","d","i","t","e","d">>>>]],
    [newName |-> <<<<"I","n","c","o","m","e">>>>, refersTo |-> <<<<"=","S","h","e","e","t","1","!","$","A","$","1",":","$","D","$","2","0">>>>,
     updates |-> [NoUpdates EXCEPT !.comment = <<<<"E","d","i","t","e","d">>>>, !.skipRows = <<3>>, !.skipCols = <<0>>]] }

\* Home shows the editor on the chosen record
handleEditName(rec) ==
  /\ home.view = "list"
  /\ home.names # <<>>
  /\ rec \in home.names[1]
  /\ home' = [home EXCEPT !.view = "edit", !.editTarget = <<rec>>]
  /\ UNCHANGED <<picker, editor, item, call, workbook, tasks>>

\* handleSaveName with an edit target: updateName(editTarget.name, updates)
\* is called and awaits its first sync
handleSaveName(data) ==
  /\ home.view = "edit"
  /\ home.editTarget # <<>>
  /\ tasks.save.stage = "idle"
  /\ tasks' = [tasks EXCEPT !.save =
                 [fn |-> "updateName", stage |-> "loading", name |-> home.editTarget[1].name,
                  scope |-> WORKBOOK_SCOPE, updates |-> data.updates,
                  refersTo |-> data.refersTo, newName |-> data.newName,
                  oldRaw |-> <<>>, formula |-> <<>>]]
  /\ UNCHANGED <<picker, editor, item, call, workbook, home>>

\* the other mutations Home can have in flight on Revenue: an update of one
\* option field, a claim of the workbook-scoped or of the sheet-scoped name
OtherCalls ==
  { [fn |-> "updateName", stage |-> "loading", name |-> <<"R","e","v","e","n","u","e">>, scope |-> WORKBOOK_SCOPE,
     updates |-> [NoUpdates EXCEPT !.expandRows = <<TRUE>>],
     refersTo |-> <<>>, newName |-> <<>>, oldRaw |-> <<>>, formula |-> <<>>],
    [fn |-> "claimAsEpifai", stage |-> "loading", name |-> <<"R","e","v","e","n","u","e">>, scope |-> WORKBOOK_SCOPE,
     updates |-> NoUpdates, refersTo |-> <<>>, newName |-> <<>>, oldRaw |-> <<>>, formula |-> <<>>],
    [fn |-> "claimAsEpifai", stage |-> "loading", name |-> <<"R","e","v","e","n","u","e">>, scope |-> "Sheet1",
     updates |-> NoUpdates, refersTo |-> <<>>, newName |-> <<>>, oldRaw |-> <<>>, formula |-> <<>>] }

\* a second mutation is started
mutate(c) ==
  /\ tasks.other.stage = "idle"
  /\ tasks' = [tasks EXCEPT !.other = c]
  /\ UNCHANGED <<picker, editor, item, call, workbook, home>>

\* the continuation of handleSaveName after the awaited mutation: the list
\* is shown again when updateName succeeded
viewAfter(t, stage) == IF t = "save" /\ stage = "done" THEN "list" ELSE home.view

\* first sync of updateName: ctx.workbook.names.getItem(name) is loaded
updateNameLoads(t) ==
  /\ tasks[t].stage = "loading"
  /\ tasks[t].fn = "updateName"
  /\ IF hasItem(workbook, tasks[t].name, WORKBOOK_SCOPE)
     THEN tasks' = [tasks EXCEPT ![t].stage = "loaded",
                                 ![t].oldRaw = getItem(workbook, tasks[t].name, WORKBOOK_SCOPE).comment,
                                 ![t].formula = getItem(workbook, tasks[t].name, WORKBOOK_SCOPE).formula]
     ELSE tasks' = [tasks EXCEPT ![t].stage = "failed"]
  /\ UNCHANGED <<picker, editor, item, call, workbook, home>>

\* updates.newName && updates.newName !== item.name
renames(t) == t.newName # <<>> /\ t.newName[1] # <<>> /\ t.newName[1] # t.name

\* updates.refersTo || item.formula
formulaWritten(t) == IF t.refersTo # <<>> /\ t.refersTo[1] # <<>> THEN t.refersTo[1] ELSE t.formula

\* the item after item.formula and item.comment are assigned
writtenItem(it, t) ==
  [it EXCEPT !.formula = IF t.refersTo # <<>> /\ t.refersTo[1] # <<>> THEN t.refersTo[1] ELSE @,
             !.comment = updateNameComment(t.oldRaw, t.updates)]

\* the item ctx.workbook.names.add(newName, f) creates, with the comment
renamedItem(it, t) ==
  [it EXCEPT !.name = t.newName[1], !.scope = WORKBOOK_SCOPE, !.formula = formulaWritten(t),
             !.comment = updateNameComment(t.oldRaw, t.updates)]

namesAfterUpdate(wb, it, t) ==
  (wb.names \ {it}) \cup {IF renames(t) THEN renamedItem(it, t) ELSE writtenItem(it, t)}

\* second sync of updateName: the formula and the rebuilt comment are
\* written, a renamed item is deleted and added under the new name
updateNameWrites(t) ==
  /\ tasks[t].stage = "loaded"
  /\ tasks[t].fn = "updateName"
  /\ IF hasItem(workbook, tasks[t].name, WORKBOOK_SCOPE)
     THEN /\ workbook' = [workbook EXCEPT !.names =
                            namesAfterUpdate(workbook, getItem(workbook, tasks[t].name, WORKBOOK_SCOPE), tasks[t])]
          /\ tasks' = [tasks EXCEPT ![t].stage = "done"]
          /\ home' = [home EXCEPT !.view = viewAfter(t, "done")]
     ELSE /\ tasks' = [tasks EXCEPT ![t].stage = "failed"]
          /\ UNCHANGED <<workbook, home>>
  /\ UNCHANGED <<picker, editor, item, call>>

\* first sync of claimAsEpifai: the comment is loaded; a comment that holds
\* the marker ends the call
claimAsEpifaiLoads ==
  /\ tasks.other.stage = "loading"
  /\ tasks.other.fn = "claimAsEpifai"
  /\ IF hasItem(workbook, tasks.other.name, collectionOf(tasks.other.scope))
     THEN tasks' = [tasks EXCEPT
                      !.other.oldRaw = getItem(workbook, tasks.other.name, collectionOf(tasks.other.scope)).comment,
                      !.other.stage =
                        IF includes(getItem(workbook, tasks.other.name, collectionOf(tasks.other.scope)).comment, EPIFAI_TAG)
                        THEN "done" ELSE "loaded"]
     ELSE tasks' = [tasks EXCEPT !.other.stage = "failed"]
  /\ UNCHANGED <<picker, editor, item, call, workbook, home>>

\* current ? `${EPIFAI_TAG} ${current}` : EPIFAI_TAG
claimedComment(current) == IF current # <<>> THEN EPIFAI_TAG \o <<" ">> \o current ELSE EPIFAI_TAG

\* second sync of claimAsEpifai: the marked comment is written
claimAsEpifaiWrites ==
  /\ tasks.other.stage = "loaded"
  /\ tasks.other.fn = "claimAsEpifai"
  /\ IF hasItem(workbook, tasks.other.name, collectionOf(tasks.other.scope))
     THEN /\ workbook' = [workbook EXCEPT !.names =
                            (@ \ {getItem(workbook, tasks.other.name, collectionOf(tasks.other.scope))})
                              \cup {[getItem(workbook, tasks.other.name, collectionOf(tasks.other.scope))
                                       EXCEPT !.comment = claimedComment(tasks.other.oldRaw)]}]
          /\ tasks' = [tasks EXCEPT !.other.stage = "done"]
     ELSE /\ tasks' = [tasks EXCEPT !.other.stage = "failed"]
          /\ UNCHANGED workbook
  /\ UNCHANGED <<picker, editor, item, call, home>>

\* the test of handleDeleteName: the click arms the confirmation
armsOnly(pendingDelete, rec) == pendingDelete = <<>> \/ pendingDelete[1].name # rec.name

\* a click on the delete button of a listed record: the confirmation is
\* armed, or deleteName is called for the record and awaits its sync
handleDeleteName(rec) ==
  /\ home.view = "list"
  /\ home.names # <<>>
  /\ rec \in home.names[1]
  /\ IF armsOnly(home.pendingDelete, rec)
     THEN /\ home' = [home EXCEPT !.pendingDelete = <<rec>>]
          /\ UNCHANGED tasks
     ELSE /\ tasks.delete.stage = "idle"
          /\ tasks' = [tasks EXCEPT !.delete =
                         [fn |-> "deleteName", stage |-> "deleting", name |-> rec.name, scope |-> rec.scope]]
          /\ UNCHANGED home
  /\ UNCHANGED <<picker, editor, item, call, workbook>>

\* the sync of deleteName: the item is deleted or the sync throws; the
\* handler clears the pending confirmation on both paths
deleteNameSyncs ==
  /\ tasks.delete.stage = "deleting"
  /\ IF hasItem(workbook, tasks.delete.name, collectionOf(tasks.delete.scope))
     THEN /\ workbook' = [workbook EXCEPT !.names =
                            @ \ {getItem(workbook, tasks.delete.name, collectionOf(tasks.delete.scope))}]
          /\ tasks' = [tasks EXCEPT !.delete.stage = "done"]
     ELSE /\ tasks' = [tasks EXCEPT !.delete.stage = "failed"]
          /\ UNCHANGED workbook
  /\ home' = [home EXCEPT !.pendingDelete = <<>>]
  /\ UNCHANGED <<picker, editor, item, call>>

InitEdit ==
  /\ picker = PickerUnmounted
  /\ editor = EditorUnmounted
  /\ item = NoItem
  /\ call = NoCall
  /\ workbook \in EditWorkbooks
  /\ tasks = [running |-> TRUE, save |-> IdleTask, other |-> IdleTask, delete |-> IdleTask]
  /\ home = [shown |-> TRUE, names |-> <<getAllNamesOf(workbook)>>, view |-> "list",
             editTarget |-> <<>>, pendingDelete |-> <<>>]

NextEdit ==
  \/ refetchNames
  \/ \E rec \in home.names[1] : handleEditName(rec)
  \/ \E data \in SaveInputs : handleSaveName(data)
  \/ \E c \in OtherCalls : mutate(c)
  \/ \E t \in {"save", "other"} : updateNameLoads(t)
  \/ \E t \in {"save", "other"} : updateNameWrites(t)
  \/ claimAsEpifaiLoads
  \/ claimAsEpifaiWrites
  \/ \E rec \in home.names[1] : handleDeleteName(rec)
  \/ deleteNameSyncs

SpecEdit == InitEdit /\ [][NextEdit]_vars

(***************************************************************************)
(* Selection polling (excel-names.ts, onSelectionChange).  The loop reads  *)
(* the host selection in an Excel.run batch, hands a changed address to    *)
(* the callback, waits for a timer and tests active again; the returned    *)
(* function clears active.  The poller is reading (the batch is awaited),  *)
(* sleeping (the timer is awaited) or exited; delivered lists the          *)
(* addresses the callback was invoked with.                                *)
(***************************************************************************)
\* the selections of the host: the active sheet's name and the address of
\* the selected range as the host gives it
Selections ==
  { [sheet |-> <<"S","h","e","e","t","1">>, address |-> <<"S","h","e","e","t","1","!","A","1">>],
    [sheet |-> <<"S","h","e","e","t","1">>, address |-> <<"S","h","e","e","t","1","!","B","2",":","C","3">>],
    [sheet |-> <<"M","y"," ","S","h","e","e","t">>, address |-> <<"'","M","y"," ","S","h","e","e","t","'","!","A","1">>] }

\* range.address.includes("!") ? range.address.split("!")[1] : range.address
cellRefOf(address) == IF includes(address, <<"!">>) THEN split(address, "!")[2] ELSE address

\* `${sheet.name}!${cellRef}`
polledAddress(sel) == sel.sheet \o <<"!">> \o cellRefOf(sel.address)

\* if (addr !== lastAddr) { lastAddr = addr; cb(addr); }
afterRead(p, addr) ==
  IF addr # p.lastAddr
  THEN [p EXCEPT !.stage = "sleeping", !.reads = @ + 1, !.lastAddr = addr,
                 !.delivered = Append(@, addr)]
  ELSE [p EXCEPT !.stage = "sleeping", !.reads = @ + 1]

\* the user selects another range in the host
selectRange(sel) ==
  /\ tasks.fn = "onSelectionChange"
  /\ workbook.selection # sel
  /\ workbook' = [workbook EXCEPT !.selection = sel]
  /\ UNCHANGED <<picker, editor, item, call, tasks, home>>

\* the awaited Excel.run returns the address of the selection
readReturns ==
  /\ tasks.fn = "onSelectionChange"
  /\ tasks.stage = "reading"
  /\ tasks' = afterRead(tasks, polledAddress(workbook.selection))
  /\ UNCHANGED <<picker, editor, item, call, workbook, home>>

\* the awaited Excel.run throws: the error is logged
readThrows ==
  /\ tasks.fn = "onSelectionChange"
  /\ tasks.stage = "reading"
  /\ tasks' = [tasks EXCEPT !.stage = "sleeping", !.reads = @ + 1]
  /\ UNCHANGED <<picker, editor, item, call, workbook, home>>

\* the 500 ms timer fires and while (active) is tested
timerFires ==
  /\ tasks.fn = "onSelectionChange"
  /\ tasks.stage = "sleeping"
  /\ tasks.active => tasks.reads < MaxPolls
  /\ tasks' = [tasks EXCEPT !.stage = IF tasks.active THEN "reading" ELSE "exited"]
  /\ UNCHANGED <<picker, editor, item, call, workbook, home>>

\* the function onSelectionChange returned is called
stop ==
  /\ tasks.fn = "onSelectionChange"
  /\ tasks.active
  /\ tasks' = [tasks EXCEPT !.active = FALSE]
  /\ UNCHANGED <<picker, editor, item, call, workbook, home>>

\* onSelectionChange(cb) has been called: poll() runs up to its first await
InitPolling ==
  /\ picker = PickerUnmounted
  /\ editor = EditorUnmounted
  /\ item = NoItem
  /\ call = NoCall
  /\ workbook \in {[attached |-> TRUE, selection |-> sel] : sel \in Selections}
  /\ tasks = [running |-> TRUE, fn |-> "onSelectionChange", stage |-> "reading",
              active |-> TRUE, lastAddr |-> <<>>, delivered |-> <<>>, reads |-> 0]
  /\ home = NoHome

NextPolling ==
  \/ \E sel \in Selections : selectRange(sel)
  \/ readReturns
  \/ readThrows
  \/ timerFires
  \/ stop

SpecPolling == InitPolling /\ [][NextPolling]_vars

\* the host answers every read and the timer fires
SpecPollingFair ==
  SpecPolling /\ WF_vars(readReturns) /\ WF_vars(timerFires)

(***************************************************************************)
(* Export of a name to a sheet (excel-names.ts, exportNameToSheet).  The   *)
(* function awaits ctx.sync() after each group of queued commands; the     *)
(* host serves the sync, applying the commands, or the sync throws and     *)
(* none of them is applied.  pc is the sync the function awaits, thrown    *)
(* the number of syncs the host has failed.                                *)
(***************************************************************************)
TEMP_PREFIX == <<"_","e","p","i","f","a","i","_","t","m","p","_">>

\* the text of Date.now()
ClockText == <<"1","7","0","0","0","0","0","0","0","0","0","0","0">>

\* the formulas of the exported names
ExportFormulas ==
  { <<"=","S","h","e","e","t","1","!","$","A","$","1",":","$","B","$","2">>,
    <<"=","A","1",":","B","2">>,
    <<"=","A","1",":","B","2",",","S","h","e","e","t","1","!","$","D","$","1",":","$","E","$","2">>,
    <<"=","O","F","F","S","E","T","(","S","h","e","e","t","1","!","$","A","$","1",",","0",",","0",",","3",",","1",")">>,
    <<"=","A","1",":","B","2",","," ","i","n","d","e","x","(","S","h","e","e","t","1","!","$","B",":","$","B",",","1",")">>,
    <<"=","'","M","y"," ","S","h","e","e","t","'","!","$","A","$","1",":","$","B","$","2",",","C","1",":","C","2">> }

\* end of the match of /^(?:'([^']+)'|([A-Za-z0-9_]+))!/ in part, 0: no match
sheetMatchEnd(part, e) ==
  IF e >= 1 /\ e < Len(part) /\ part[e + 1] = "!" THEN e + 1 ELSE 0

quotedSheetEnd(part, e) ==
  IF e >= 2 /\ e < Len(part) /\ part[e + 1] = "'" THEN sheetMatchEnd(part, e + 1) ELSE 0

exportSheetMatch(part) ==
  IF part # <<>> /\ part[1] = "'"
  THEN quotedSheetEnd(part, runEndNot(part, 2, {"'"}))
  ELSE sheetMatchEnd(part, runEnd(part, 1, LetterSet \cup DigitSet \cup {"_"}))

\* the branch of the loop a part takes: its range is read from its sheet, a
\* temporary name is added inside a try of its own, or a temporary name is
\* added for a part with a window function
partKind(part) ==
  IF isDynamicFormula(part) THEN "dyn"
  ELSE IF exportSheetMatch(part) # 0 THEN "sheet"
  ELSE "bare"

\* formulaParts, each trimmed, as the kinds of its parts
partKinds(formula) ==
  [i \in 1..Len(splitFormulaTopLevel(stripLeadingEq(formula))) |->
     partKind(trim(splitFormulaTopLevel(stripLeadingEq(formula))[i]))]

\* `_epifai_tmp_${Date.now()}_s${i}` and `_epifai_tmp_${Date.now()}_${i}`
tempNameOf(kind, i) ==
  TEMP_PREFIX \o ClockText \o (IF kind = "bare" THEN <<"_", "s">> ELSE <<"_">>) \o numStr(i - 1)

firstSyncOf(kind) == IF kind = "sheet" THEN "values" ELSE "add"

\* the outer catch: the cleanup loop over tempNames, then the rethrow
caught(t) ==
  IF t.tempNames = <<>> THEN [t EXCEPT !.pc = "threw"] ELSE [t EXCEPT !.pc = "cleanup", !.k = 1]

\* the function goes on with the next part, or with what follows the loop:
\* the throw for no data, or the export sheet
nextPart(t) ==
  IF t.i < Len(t.kinds)
  THEN [t EXCEPT !.i = @ + 1, !.pc = firstSyncOf(t.kinds[t.i + 1])]
  ELSE IF t.partValues = 0
  THEN caught([t EXCEPT !.noData = TRUE])
  ELSE [t EXCEPT !.pc = "exportSheet"]

\* the cleanup loop goes to the next temporary name or rethrows
nextCleanup(t) ==
  IF t.k < Len(t.tempNames) THEN [t EXCEPT !.k = @ + 1] ELSE [t EXCEPT !.pc = "threw"]

\* an awaited sync throws in the inner try of a sheetless part (the error
\* is swallowed) or in the outer try
thrownInPart(t) == IF t.kinds[t.i] = "bare" THEN nextPart(t) ELSE caught(t)

\* namedItem.load("formula") is served: the formula is split in its parts
exportLoads ==
  /\ tasks.fn = "exportNameToSheet"
  /\ tasks.pc = "load"
  /\ tasks' = [tasks EXCEPT !.kinds = partKinds(getItem(workbook, tasks.name, tasks.scope).formula),
                            !.i = 1,
                            !.pc = firstSyncOf(partKinds(getItem(workbook, tasks.name, tasks.scope).formula)[1])]
  /\ UNCHANGED <<picker, editor, item, call, workbook, home>>

\* the values of a part with a sheet are read
partValuesRead ==
  /\ tasks.fn = "exportNameToSheet"
  /\ tasks.pc = "values"
  /\ tasks' = nextPart([tasks EXCEPT !.partValues = @ + 1])
  /\ UNCHANGED <<picker, editor, item, call, workbook, home>>

\* ctx.workbook.names.add(tempName, `=${part}`) is served
tempNameAdded ==
  /\ tasks.fn = "exportNameToSheet"
  /\ tasks.pc = "add"
  /\ workbook' = [workbook EXCEPT !.names =
                    @ \cup {[name |-> tempNameOf(tasks.kinds[tasks.i], tasks.i), scope |-> WORKBOOK_SCOPE,
                             formula |-> <<>>]}]
  /\ tasks' = [tasks EXCEPT !.pc = "resolve",
                            !.tempNames = Append(@, tempNameOf(tasks.kinds[tasks.i], tasks.i))]
  /\ UNCHANGED <<picker, editor, item, call, home>>

\* the range of the temporary name is loaded: a null object or its values
tempNameResolved(isNullObject) ==
  /\ tasks.fn = "exportNameToSheet"
  /\ tasks.pc = "resolve"
  /\ tasks' = [tasks EXCEPT !.pc = "delete",
                            !.partValues = IF isNullObject THEN @ ELSE @ + 1]
  /\ UNCHANGED <<picker, editor, item, call, workbook, home>>

\* tempItem.delete() is served
tempNameDeleted ==
  /\ tasks.fn = "exportNameToSheet"
  /\ tasks.pc = "delete"
  /\ workbook' = [workbook EXCEPT !.names =
                    {n \in @ : n.name # tempNameOf(tasks.kinds[tasks.i], tasks.i)}]
  /\ tasks' = nextPart(tasks)
  /\ UNCHANGED <<picker, editor, item, call, home>>

\* one turn of the cleanup loop is served: the temporary name is deleted
\* (for a name that is not in the workbook the sync throws and is swallowed)
cleanupDeletes ==
  /\ tasks.fn = "exportNameToSheet"
  /\ tasks.pc = "cleanup"
  /\ workbook' = [workbook EXCEPT !.names = {n \in @ : n.name # tasks.tempNames[tasks.k]}]
  /\ tasks' = nextCleanup(tasks)
  /\ UNCHANGED <<picker, editor, item, call, home>>

\* the syncs after the try: the export sheet, its used range, the written
\* values with the activation, the selection
afterExportSync(pc) ==
  CASE pc = "exportSheet" -> "usedRange"
    [] pc = "usedRange" -> "activate"
    [] pc = "activate" -> "select"
    [] pc = "select" -> "returned"

exportSheetSyncs ==
  /\ tasks.fn = "exportNameToSheet"
  /\ tasks.pc \in {"exportSheet", "usedRange", "activate", "select"}
  /\ tasks' = [tasks EXCEPT !.pc = afterExportSync(tasks.pc)]
  /\ UNCHANGED <<picker, editor, item, call, workbook, home>>

\* where the function goes on when the awaited sync throws
afterThrow(t) ==
  CASE t.pc = "load" -> [t EXCEPT !.pc = "threw"]
    [] t.pc = "values" -> caught(t)
    [] t.pc = "add" ->
         thrownInPart([t EXCEPT !.tempNames = Append(@, tempNameOf(t.kinds[t.i], t.i))])
    [] t.pc \in {"resolve", "delete"} -> thrownInPart(t)
    [] t.pc = "cleanup" -> nextCleanup(t)
    [] OTHER -> [t EXCEPT !.pc = "threw"]

\* the awaited sync throws: no queued command is applied
syncThrows ==
  /\ tasks.fn = "exportNameToSheet"
  /\ tasks.pc \notin {"returned", "threw"}
  /\ tasks' = afterThrow([tasks EXCEPT !.thrown = @ + 1])
  /\ UNCHANGED <<picker, editor, item, call, workbook, home>>

InitExport ==
  /\ picker = PickerUnmounted
  /\ editor = EditorUnmounted
  /\ item = NoItem
  /\ call = NoCall
  /\ workbook \in {[attached |-> TRUE,
                    names |-> {[name |-> <<"R","e","v","e","n","u","e">>, scope |-> WORKBOOK_SCOPE, formula |-> f]}]
                     : f \in ExportFormulas}
  /\ tasks = [running |-> TRUE, fn |-> "exportNameToSheet", name |-> <<"R","e","v","e","n","u","e">>,
              scope |-> WORKBOOK_SCOPE, pc |-> "load", kinds |-> <<>>, i |-> 0, k |-> 0,
              tempNames |-> <<>>, partValues |-> 0, noData |-> FALSE, thrown |-> 0]
  /\ home = NoHome

NextExport ==
  \/ exportLoads
  \/ partValuesRead
  \/ tempNameAdded
  \/ \E isNullObject \in BOOLEAN : tempNameResolved(isNullObject)
  \/ tempNameDeleted
  \/ cleanupDeletes
  \/ exportSheetSyncs
  \/ syncThrows

SpecExport == InitExport /\ [][NextExport]_vars

(***************************************************************************)
(* Reading an emitted formula back.                                        *)
(***************************************************************************)
\* does an anchored cell "$COL$ROW" start at position i of t
anchoredCellAt(t, i) ==
  LET ce == runEnd(t, i + 1, UpperSet)
  IN /\ t[i] = "$"
     /\ ce >= i + 1
     /\ ce + 1 <= Len(t)
     /\ t[ce + 1] = "$"
     /\ runEnd(t, ce + 2, DigitSet) >= ce + 2

\* the anchored cells of t in order of appearance: column letters, column
\* number and row number
anchoredCells(t) ==
  LET P == SelectSeq([i \in 1..Len(t) |-> i], LAMBDA i : anchoredCellAt(t, i))
  IN [k \in 1..Len(P) |->
        LET ce == runEnd(t, P[k] + 1, UpperSet)
        IN [col |-> SubSeq(t, P[k] + 1, ce),
            colNum |-> colToNum(SubSeq(t, P[k] + 1, ce)),
            row |-> digitsValue(SubSeq(t, ce + 2, runEnd(t, ce + 2, DigitSet)), 0)]]

\* the number of parentheses open before position i of t
depthBefore(t, i) ==
  Cardinality({j \in 1..(i - 1) : t[j] = "("}) - Cardinality({j \in 1..(i - 1) : t[j] = ")"})

\* the pieces of t between its commas outside parentheses
piecesOf(t) ==
  LET C == SelectSeq([i \in 1..Len(t) |-> i],
                     LAMBDA i : t[i] = "," /\ depthBefore(t, i) = 0)
  IN [k \in 1..(Len(C) + 1) |->
        SubSeq(t,
               IF k = 1 THEN 1 ELSE C[k - 1] + 1,
               IF k = Len(C) + 1 THEN Len(t) ELSE C[k] - 1)]

\* a formula without its "=" and without the parentheses around all of it
unionBody(f) ==
  LET b == IF Len(f) > 0 /\ f[1] = "=" THEN Tail(f) ELSE f
  IN IF /\ Len(b) >= 2
        /\ b[1] = "("
        /\ b[Len(b)] = ")"
        /\ \A i \in 2..Len(b) : depthBefore(b, i) >= 1
     THEN SubSeq(b, 2, Len(b) - 1)
     ELSE b

\* the areas of a formula
areasOf(f) == piecesOf(unionBody(f))

\* the arguments of a term "OFFSET(...)"
offsetArgs(term) == piecesOf(SubSeq(term, Len(L_OFFSET) + 1, Len(term) - 1))

\* the number of occurrences of p in t
occurrences(t, p) == Cardinality({i \in 1..Len(t) : startsWithAt(t, i, p)})

\* the text "$col$row"
cellText(col, row) == <<"$">> \o col \o <<"$">> \o numStr(row)

\* the number of maximal runs of consecutive indices in S
runsOf(S) == Cardinality({x \in S : (x - 1) \notin S})

\* the j-th smallest element of S
nthOf(S, j) == CHOOSE x \in S : Cardinality({y \in S : y < x}) = j - 1

(***************************************************************************)
(* The picker's selection as the claims read it.                           *)
(***************************************************************************)
pickerHolds == picker.mounted /\ picker.selectionData.picked

pickerSaved == picker.mounted /\ picker.saved # <<>>

ActiveRows == (0..(picker.selectionData.rowCount - 1)) \ picker.skippedRows

ActiveCols == (0..(picker.selectionData.colCount - 1)) \ picker.skippedCols

\* the letters of the j-th active column
activeColumn(j) == picker.selectionData.columns[nthOf(ActiveCols, j) + 1]

\* the number of skipped rows above the first active row
leadingSkippedRows ==
  IF ActiveRows = {} THEN picker.selectionData.rowCount ELSE nthOf(ActiveRows, 1)

(***************************************************************************)
(* C2  Plain strategy.                                                     *)
(***************************************************************************)
plainRangeOf(sel) ==
  <<"=">> \o sheetPrefix(sel.sheet)
  \o cellText(sel.startCol, sel.startRow) \o <<":">> \o cellText(sel.endCol, sel.endRow)

\* C2: with no row and no column skipped and no fixed/dynamic split, the
\* picker's buildResult returns exactly "=" + sheet prefix +
\* "$startCol$startRow:$endCol$endRow" of the selection, and that is the
\* formula handed to onSave; Sheet1!A1:D10 gives =Sheet1!$A$1:$D$10.
C2_PlainStrategy ==
  (/\ pickerHolds
   /\ picker.skippedRows = {}
   /\ picker.skippedCols = {}
   /\ picker.fixedBoundary = 0)
  => /\ buildResult(picker).ok
     /\ buildResult(picker).refersTo = plainRangeOf(picker.selectionData)
     /\ picker.selectionData.address = <<"S","h","e","e","t","1","!","A","1",":","D","1","0">>
          => buildResult(picker).refersTo = <<"=","S","h","e","e","t","1","!","$","A","$","1",":","$","D","$","1","0">>
     /\ picker.selectionData.address = <<"'","M","y"," ","S","h","e","e","t","'","!","B","2",":","C","3">>
          => buildResult(picker).refersTo = <<"=","'","M","y"," ","S","h","e","e","t","'","!","$","B","$","2",":","$","C","$","3">>
     /\ pickerSaved => picker.saved[1].refersTo = plainRangeOf(picker.selectionData)

C2_Witness ==
  /\ pickerSaved
  /\ picker.skippedRows = {}
  /\ picker.skippedCols = {}
  /\ picker.fixedBoundary = 0
  /\ picker.saved[1].refersTo = <<"=","S","h","e","e","t","1","!","$","A","$","1",":","$","D","$","1","0">>

(***************************************************************************)
(* C3  Union strategy.                                                     *)
(***************************************************************************)
\* does the area between the anchored cells a and b cover a skipped column
\* or a skipped row of the selection
coversSkipped(a, b) ==
  \/ \E c \in picker.skippedCols :
       /\ c < picker.selectionData.colCount
       /\ a.colNum <= colToNum(picker.selectionData.startCol) + c
       /\ colToNum(picker.selectionData.startCol) + c <= b.colNum
  \/ \E r \in picker.skippedRows :
       /\ r < picker.selectionData.rowCount
       /\ a.row <= picker.selectionData.startRow + r
       /\ picker.selectionData.startRow + r <= b.row

\* C3: when the active rows or the active columns form more than one maximal
\* run and no split is requested, the saved formula is a comma-joined list of
\* exactly one anchored area per (column run, row run) pair and no area
\* covers a skipped row or column.
C3_UnionStrategy ==
  (/\ pickerSaved
   /\ picker.fixedBoundary = 0
   /\ ActiveRows # {}
   /\ ActiveCols # {}
   /\ (runsOf(ActiveRows) > 1 \/ runsOf(ActiveCols) > 1))
  => LET areas == areasOf(picker.saved[1].refersTo)
     IN /\ Len(areas) = runsOf(ActiveCols) * runsOf(ActiveRows)
        /\ \A k \in 1..Len(areas) :
             /\ Len(anchoredCells(areas[k])) = 2
             /\ ~coversSkipped(anchoredCells(areas[k])[1], anchoredCells(areas[k])[2])

\* the example of C3 as the picker saves it: column B skipped, one area
\* from A to D
C3_BoundingRangeSaved ==
  /\ pickerSaved
  /\ picker.selectionData.address = <<"S","h","e","e","t","1","!","A","1",":","D","1","0">>
  /\ picker.skippedCols = {1}
  /\ picker.skippedRows = {}
  /\ picker.fixedBoundary = 0
  /\ picker.saved[1].refersTo = <<"=","S","h","e","e","t","1","!","$","A","$","1",":","$","D","$","1","0">>

(***************************************************************************)
(* C8  Empty selection.                                                    *)
(***************************************************************************)
\* C8: when the skip sets leave no active row or no active column,
\* buildResult returns no result and handleSave does not call onSave.
C8_EmptySelection ==
  (pickerHolds /\ (ActiveRows = {} \/ ActiveCols = {}))
  => /\ ~buildResult(picker).ok
     /\ picker.saved = <<>>

\* a selection with every row skipped is saved
C8_EmptyRowsSaved ==
  /\ pickerSaved
  /\ picker.selectionData.address = <<"'","M","y"," ","S","h","e","e","t","'","!","B","2",":","C","3">>
  /\ picker.skippedRows = {0, 1}
  /\ picker.skippedCols = {}
  /\ picker.saved[1].refersTo = <<"=","'","M","y"," ","S","h","e","e","t","'","!","$","B","$","4",":","$","C","$","3">>

(***************************************************************************)
(* The editor's reference as the claims read it.                           *)
(***************************************************************************)
editorSaved == editor.mounted /\ editor.saved # <<>>

\* the reference of the editor parses as a simple range
editorParsed == parseRangeRef(editor.refersTo)

refStartCol == colToNum(editorParsed.startCol)
refEndCol == colToNum(editorParsed.endCol)
refStartRow == digitsValue(editorParsed.startRow, 0)
refEndRow == digitsValue(editorParsed.endRow, 0)

\* the editor has saved the compile of the dynamic type
savedDynamic == editorSaved /\ editor.type = "dynamic" /\ editorParsed.ok

\* the editor has saved the compile of the hybrid type with the split k
\* inside the range
savedHybrid ==
  /\ editorSaved
  /\ editor.type = "hybrid"
  /\ editorParsed.ok
  /\ 0 < editor.fixedCols
  /\ editor.fixedCols < refEndCol - refStartCol + 1

\* the picker has saved the compile of the hybrid branch with the split k
\* inside the active columns
pickerSavedHybrid ==
  /\ pickerSaved
  /\ 0 < picker.fixedBoundary
  /\ picker.fixedBoundary < Cardinality(ActiveCols)

(***************************************************************************)
(* C4  Hybrid split.                                                       *)
(***************************************************************************)
\* f is a union of exactly two areas: the plain anchored range
\* prefix$c1$r1:$c2$r2, then one OFFSET term anchored at prefix$c3$r1 whose
\* height is COUNTA of a column-shaped window from the anchor and which takes
\* COUNTA of a row-shaped window from the anchor for its width
twoAreaUnion(f, prefix, c1, r1, c2, r2, c3) ==
  LET areas == areasOf(f)
      args == offsetArgs(areas[2])
      anchor == prefix \o cellText(c3, r1)
      isCount(a) == startsWithAt(a, 1, L_COUNTA \o anchor \o <<":">>)
      H == anchoredCells(args[4])
  IN /\ Len(areas) = 2
     /\ areas[1] = prefix \o cellText(c1, r1) \o <<":">> \o cellText(c2, r2)
     /\ startsWithAt(areas[2], 1, L_OFFSET \o anchor \o <<",">>)
     /\ areas[2][Len(areas[2])] = ")"
     /\ occurrences(f, L_OFFSET) = 1
     /\ occurrences(f, L_COUNTA) = 2
     /\ Len(args) = 5
     /\ isCount(args[4])
     /\ Len(H) = 2
     /\ H[1].col = c3 /\ H[2].col = c3 /\ H[1].row = r1
     /\ \E j \in {3, 5} :
          /\ isCount(args[j])
          /\ Len(anchoredCells(args[j])) = 2
          /\ anchoredCells(args[j])[1].col = c3
          /\ anchoredCells(args[j])[1].row = r1
          /\ anchoredCells(args[j])[2].row = r1

C4_PickerWitness ==
  /\ pickerSavedHybrid
  /\ ~picker.lastColOnly
  /\ picker.saved[1].refersTo =
       <<"=","S","h","e","e","t","1","!","$","A","$","1",":","$","B","$","1","0",",","O","F","F","S","E","T","(","S","h","e","e","t","1","!","$","C","$","1",",","0",",","0",",","C","O","U","N","T","A","(","S","h","e","e","t","1","!","$","C","$","1",":","$","C","$","3","0",")",",","C","O","U","N","T","A","(","S","h","e","e","t","1","!","$","C","$","1",":","$","X","$","1",")",")">>

(***************************************************************************)
(* C5  Window clamp.                                                       *)
(***************************************************************************)
\* the arguments of the aggregate term of formula f, its last area
aggregateArgs(f) == offsetArgs(areasOf(f)[Len(areasOf(f))])

\* the two cells of the height-count window of f: the COUNTA of the fourth
\* argument of OFFSET
heightWindow(f) == anchoredCells(aggregateArgs(f)[4])

\* the two cells of the width-count window of f: the COUNTA of the fifth
\* argument of OFFSET, or of the third when the width is the literal 1
widthWindow(f) ==
  IF startsWithAt(aggregateArgs(f)[5], 1, L_COUNTA)
  THEN anchoredCells(aggregateArgs(f)[5])
  ELSE anchoredCells(aggregateArgs(f)[3])

\* the height window ends at cell h and the width window at cell w: they are
\* the clamped look-ahead of end column E and end row R
clampedWindow(h, w, E, R) ==
  /\ h.row = (IF R + 20 < 1048576 THEN R + 20 ELSE 1048576)
  /\ w.colNum = (IF E + 20 < 16384 THEN E + 20 ELSE 16384)
  /\ w.col = numToCol(IF E + 20 < 16384 THEN E + 20 ELSE 16384)
  /\ h.row <= 1048576
  /\ w.colNum <= 16384

C5_PickerWitness ==
  /\ pickerSavedHybrid
  /\ picker.lastColOnly
  /\ widthWindow(picker.saved[1].refersTo)[2].col = <<"X", "F", "D">>
  /\ heightWindow(picker.saved[1].refersTo)[2].row = 1048576

(***************************************************************************)
(* C6  Skip clamp of buildDynamicFormula.                                  *)
(***************************************************************************)
\* the anchor of the saved dynamic formula
dynamicAnchor == anchoredCells(editor.saved[1].refersTo)[1]

\* C6 as stated: the anchor is at row startRow + min(skipRows, endRow -
\* startRow) and column startCol + min(skipCols, endCol - startCol), and never
\* past the end row or end column.
C6_SkipClampAsStated ==
  savedDynamic
  => /\ dynamicAnchor.row = refStartRow + (IF editor.skipRows < refEndRow - refStartRow
                                           THEN editor.skipRows
                                           ELSE refEndRow - refStartRow)
     /\ dynamicAnchor.colNum = refStartCol + (IF editor.skipCols < refEndCol - refStartCol
                                              THEN editor.skipCols
                                              ELSE refEndCol - refStartCol)
     /\ dynamicAnchor.row <= refEndRow
     /\ dynamicAnchor.colNum <= refEndCol

\* the shift the code applies: min(skip, max(0, end - start))
clampedShift(skip, start, end) ==
  IF end - start < 0 THEN (IF skip < 0 THEN skip ELSE 0)
  ELSE IF skip < end - start THEN skip ELSE end - start

\* C6: the anchor of buildDynamicFormula is at row startRow + min(skipRows,
\* max(0, endRow - startRow)) and column startCol + min(skipCols, max(0,
\* endCol - startCol)); for a range with startRow <= endRow (startCol <=
\* endCol) the anchor is never past the end row (end column).
C6_SkipClamp ==
  savedDynamic
  => /\ dynamicAnchor.row = refStartRow + clampedShift(editor.skipRows, refStartRow, refEndRow)
     /\ dynamicAnchor.colNum = refStartCol + clampedShift(editor.skipCols, refStartCol, refEndCol)
     /\ refStartRow <= refEndRow => dynamicAnchor.row <= refEndRow
     /\ refStartCol <= refEndCol => dynamicAnchor.colNum <= refEndCol

C6_Witness ==
  /\ savedDynamic
  /\ editor.skipRows > refEndRow - refStartRow
  /\ editor.skipCols > refEndCol - refStartCol
  /\ refStartRow < refEndRow
  /\ dynamicAnchor.row = refEndRow
  /\ dynamicAnchor.colNum = refEndCol

\* the reversed range on which C6 as stated fails is saved
C6_ReversedSaved ==
  /\ savedDynamic
  /\ refStartRow > refEndRow
  /\ dynamicAnchor.row > refEndRow

(***************************************************************************)
(* C7  Last-only variant.                                                  *)
(***************************************************************************)
\* the arguments of the aggregate term the picker saved
savedOffsetArgs == offsetArgs(areasOf(picker.saved[1].refersTo)[2])

\* a is "COUNTA(window)" followed by tail
countOf(a, window, tail) == a = L_COUNTA \o window \o <<")">> \o tail

\* the window of the COUNTA that argument a starts with
windowOf(a) == SubSeq(a, Len(L_COUNTA) + 1, indexOf(a, <<")">>) - 1)

C9_InconsistentSplit ==
  /\ (pickerHolds /\ picker.fixedBoundary > 0
      /\ picker.fixedBoundary >= Cardinality(ActiveCols))
       => /\ ~buildResult(picker).ok
          /\ picker.saved = <<>>
  /\ (editor.mounted /\ editor.type = "hybrid" /\ editorParsed.ok
      /\ editor.fixedCols >= refEndCol - refStartCol + 1)
       => editor.saved = <<>>

\* the editor saves the unsplit reference of a four-column range for a fixed
\* column count of 25
C9_UnsplitSaved ==
  /\ editorSaved
  /\ editor.type = "hybrid"
  /\ editor.refersTo = <<"S","h","e","e","t","1","!","$","A","$","1",":","$","D","$","1","0">>
  /\ editor.fixedCols = 25
  /\ editor.saved[1].refersTo = <<"=","S","h","e","e","t","1","!","$","A","$","1",":","$","D","$","1","0">>
  /\ editor.saved[1].fixedCols = <<25>>

(***************************************************************************)
(* C10  Graceful degradation.                                              *)
(***************************************************************************)
\* the reference with a single leading "="
withLeadingEq(ref) == IF Len(ref) > 0 /\ ref[1] = "=" THEN ref ELSE <<"=">> \o ref

\* out is ref apart from a single leading "=", with no aggregate added
degraded(out, ref) ==
  /\ out = withLeadingEq(ref)
  /\ occurrences(out, L_OFFSET) = occurrences(ref, L_OFFSET)
  /\ occurrences(out, L_COUNTA) = occurrences(ref, L_COUNTA)

\* C10: for a reference parseRangeRef does not accept, buildDynamicFormula
\* and buildHybridFormula return the reference unmodified apart from a single
\* leading "=", for every option value, and that is what a save of the
\* dynamic type hands to onSave.
C10_GracefulDegradation ==
  (editor.mounted /\ ~editorParsed.ok)
  => /\ \A a \in NumberInputs : \A b \in NumberInputs :
          /\ degraded(buildDynamicFormula(editor.refersTo, a, b), editor.refersTo)
          /\ degraded(buildHybridFormula(editor.refersTo, a, b), editor.refersTo)
     /\ (editor.saved # <<>> /\ editor.type = "dynamic")
          => degraded(editor.saved[1].refersTo, editor.refersTo)

C10_Witness ==
  /\ editorSaved
  /\ editor.type = "dynamic"
  /\ editor.refersTo = <<"S","h","e","e","t","1","!","A",":","D">>
  /\ editor.saved[1].refersTo = <<"=","S","h","e","e","t","1","!","A",":","D">>

(***************************************************************************)
(* C1  Tag codec round trip.                                               *)
(***************************************************************************)
\* the outputs of the build functions joined with single spaces
joinedTags(o) ==
  join(<<buildSkipTag(o.skipRows, o.skipCols),
         buildFixedRefTag(o.fixedRef),
         buildDynamicRefTag(o.dynamicRef),
         buildLastColTag(o.lastColOnly),
         buildLastRowTag(o.lastRowOnly),
         buildOrigRangeTag(o.origRange),
         buildExpandRowsTag(o.expandRows),
         buildExpandColsTag(o.expandCols),
         buildSkipColIndicesTag(o.skippedColIndices),
         buildSkipRowIndicesTag(o.skippedRowIndices),
         buildColOverflowTag(o.colOverflowByRow),
         buildRowOverflowTag(o.rowOverflowByCol)>>, <<" ">>)

\* the parse functions applied to comment c return the fields of o
parsesBackTo(c, o) ==
  /\ parseSkipTag(c) = [skipRows |-> o.skipRows, skipCols |-> o.skipCols]
  /\ parseFixedRefTag(c) = o.fixedRef
  /\ parseDynamicRefTag(c) = o.dynamicRef
  /\ parseLastColTag(c) = o.lastColOnly
  /\ parseLastRowTag(c) = o.lastRowOnly
  /\ parseOrigRangeTag(c) = o.origRange
  /\ parseExpandRowsTag(c) = o.expandRows
  /\ parseExpandColsTag(c) = o.expandCols
  /\ parseSkipColIndicesTag(c) = o.skippedColIndices
  /\ parseSkipRowIndicesTag(c) = o.skippedRowIndices
  /\ parseColOverflowTag(c) = o.colOverflowByRow
  /\ parseRowOverflowTag(c) = o.rowOverflowByCol

\* the tag-borne fields of the record r are those of o
recordCarries(r, o) ==
  \A f \in (DOMAIN o) \ {"comment"} : r[f] = o[f]

\* C1: the parse functions applied to the space-joined outputs of the build
\* functions return every field of the options, one field set or all of
\* them; the record read back from the comment addName wrote carries the
\* options; for all-default options every build function returns the empty
\* string and every parse function returns its default.
C1_TagRoundTrip ==
  /\ item.stage \in {"added", "read"}
       => /\ parsesBackTo(joinedTags(item.options), item.options)
          /\ parsesBackTo(item.comment, item.options)
          /\ item.options = DefaultOptions
               => /\ joinedTags(item.options) = [k \in 1..11 |-> " "]
                  /\ item.comment = EPIFAI_TAG
                  /\ parsesBackTo(<<>>, DefaultOptions)
  /\ item.stage = "read" => recordCarries(item.record, item.options)

C1_Witness ==
  /\ item.stage = "read"
  /\ item.options.skipRows = 12
  /\ item.options.lastColOnly
  /\ item.options.lastRowOnly
  /\ item.options.expandRows
  /\ item.options.expandCols
  /\ item.record.fixedRef = <<"S","h","e","e","t","1","!","$","A","$","1",":","$","B","$","1","0">>
  /\ item.record.dynamicRef = <<"'","M","y"," ","S","h","e","e","t","'","!","$","C","$","1",":","$","D","$","1","0">>
  /\ item.record.origRange = <<"S","h","e","e","t","1","!","A","1",":","D","1","0">>
  /\ item.record.skippedColIndices = <<1>>
  /\ item.record.skippedRowIndices = <<0, 2, 11>>
  /\ item.record.colOverflowByRow = <<(<<<<"2">>, 5>>), (<<<<"1","0">>, 7>>)>>
  /\ item.record.rowOverflowByCol = <<(<<<<"A">>, 3>>), (<<<<"C">>, 3>>)>>

\* the all-default round trip is reached
C1_DefaultWitness ==
  /\ item.stage = "read"
  /\ item.options = DefaultOptions
  /\ item.comment = EPIFAI_TAG

(***************************************************************************)
(* C11  Stripping an encoding followed by a user text.                     *)
(***************************************************************************)
\* a returned call of stripMetaTags on an encoding and a user text
strippedEncoding ==
  /\ call.fn = "stripMetaTags"
  /\ call.from \in {"encoded", "addName"}
  /\ call.returned # <<>>

hasBracket(t) == \E i \in 1..Len(t) : t[i] \in {"[", "]"}

\* C11 as stated: for every options record and every user text without a
\* bracket, stripMetaTags(encode(options) + " " + userText) is the user text.
C11_StripEncodedAsStated ==
  (strippedEncoding /\ call.from = "encoded" /\ ~hasBracket(call.userText))
    => call.returned[1] = call.userText

\* C11 amended: for every options record and every user text without a
\* bracket, stripMetaTags of the encoding followed by a blank and the user
\* text, and of the comment addName writes for them, is the user text with
\* its leading and trailing blanks removed; it is the user text itself when
\* the text neither starts nor ends with a blank.
C11_StripEncoded ==
  (strippedEncoding /\ ~hasBracket(call.userText))
    => /\ call.returned[1] = trim(call.userText)
       /\ (call.userText = trim(call.userText)
             => call.returned[1] = call.userText)

C11_Witness ==
  /\ strippedEncoding
  /\ call.from = "encoded"
  /\ call.options = FullOptions
  /\ call.userText = <<"Q","u","a","r","t","e","r","l","y"," ","t","o","t","a","l","s">>
  /\ call.returned[1] = call.userText

\* an encoding followed by a text that starts with a blank has been stripped
C11_PaddedStripped ==
  /\ strippedEncoding
  /\ call.from = "encoded"
  /\ call.userText = <<" ","p","a","d","d","e","d">>
  /\ call.returned[1] = <<"p","a","d","d","e","d">>

(***************************************************************************)
(* C12  Stripping any comment.                                             *)
(***************************************************************************)
\* does a known tag pattern or the origin sentinel occur in c
hasMetaTag(c) ==
  \/ \E t \in {EPIFAI_TAG, LASTCOL_TAG, LASTROW_TAG, EXPANDROWS_TAG, EXPANDCOLS_TAG} :
       includes(c, t)
  \/ \E i \in 1..Len(c) : skipTagAt(c, i).ok
  \/ \E open \in {L_FIXREF, L_DYNREF, L_ORIGRANGE, L_SKIPCIDX, L_SKIPRIDX,
                  L_COLOVERFLOW, L_ROWOVERFLOW} :
       \E i \in 1..Len(c) : tagGroupAt(c, i, open) # 0

\* C12: for every comment, with tags in any position and any number of
\* occurrences, the string stripMetaTags returns contains no known tag
\* pattern and no origin sentinel and neither starts nor ends with a blank.
C12_StripRemovesAll ==
  (call.fn = "stripMetaTags" /\ call.returned # <<>>)
    => /\ ~hasMetaTag(call.returned[1])
       /\ call.returned[1] = trim(call.returned[1])

\* a comment with the same tag twice has been stripped and one is left
C12_SecondTagLeft ==
  /\ call.fn = "stripMetaTags"
  /\ call.comment = <<"[","l","a","s","t","c","o","l","]"," ","n","o","t","e"," ","[","l","a","s","t","c","o","l","]">>
  /\ call.returned = << <<"n","o","t","e"," ","[","l","a","s","t","c","o","l","]">> >>

(***************************************************************************)
(* C13  Overflow map codec.                                                *)
(***************************************************************************)
\* do all entries of the map m carry the same count
sameCounts(m) == \A i \in 1..Len(m) : m[i][2] = m[1][2]

\* "key1,key2,...=value"
sharedText(m) ==
  join([i \in 1..Len(m) |-> m[i][1]], <<",">>) \o <<"=">> \o numStr(m[1][2])

\* "key1:value1,key2:value2,..."
pairText(m) ==
  join([i \in 1..Len(m) |-> m[i][1] \o <<":">> \o numStr(m[i][2])], <<",">>)

\* an '=' occurs in s with no ':' before it
eqBeforeColon(s) ==
  \E i \in 1..Len(s) : s[i] = "=" /\ \A j \in 1..(i - 1) : s[j] # ":"

\* the text between the opening of a tag and its closing bracket
tagBody(tag, open) == SubSeq(tag, Len(open) + 1, Len(tag) - 1)

\* the opening of the tag a call builds or parses
overflowOpening ==
  IF call.fn \in {"buildColOverflowTag", "parseColOverflowTag"}
  THEN L_COLOVERFLOW ELSE L_ROWOVERFLOW

\* C13: for every non-empty map from keys to non-negative counts the encoder
\* emits "key1,key2,...=value" when all counts are identical and
\* "key1:value1,key2:value2,..." otherwise; the decoder takes the text for
\* the first form exactly when an '=' occurs in it with no ':' before it;
\* decoding either form returns the original map.
C13_OverflowCodec ==
  /\ (call.fn \in {"buildColOverflowTag", "buildRowOverflowTag"} /\ call.returned # <<>>)
       => /\ sameCounts(call.overflow)
               => call.returned[1] = overflowOpening \o sharedText(call.overflow) \o <<"]">>
          /\ ~sameCounts(call.overflow)
               => call.returned[1] = overflowOpening \o pairText(call.overflow) \o <<"]">>
  /\ call.fn \in {"parseColOverflowTag", "parseRowOverflowTag"}
       => LET body == tagBody(call.comment, overflowOpening)
              eq == lastIndexOf(body, <<"=">>)
          IN /\ call.returned[1] = call.overflow
             /\ eqBeforeColon(body)
                  => decodeOverflow(body)
                       = [i \in 1..Len(split(SubSeq(body, 1, eq - 1), ",")) |->
                            <<split(SubSeq(body, 1, eq - 1), ",")[i],
                              digitsValue(SubSeq(body, eq + 1, Len(body)), 0)>>]
             /\ ~eqBeforeColon(body)
                  => decodeOverflow(body)
                       = [i \in 1..Len(split(body, ",")) |->
                            <<split(split(body, ",")[i], ":")[1],
                              digitsValue(split(split(body, ",")[i], ":")[2], 0)>>]
             /\ eqBeforeColon(body) <=> sameCounts(call.overflow)

\* a map with differing counts and a map with one shared count have both
\* been encoded and decoded
C13_Witness ==
  /\ call.fn = "parseColOverflowTag"
  /\ call.overflow = <<(<<<<"2">>, 0>>), (<<<<"1","0">>, 12>>)>>
  /\ call.comment = <<"[","c","o","l","o","v","e","r","f","l","o","w",":","2",":","0",",","1","0",":","1","2","]">>
  /\ call.returned[1] = call.overflow

C13_SharedWitness ==
  /\ call.fn = "parseRowOverflowTag"
  /\ call.overflow = <<(<<<<"A">>, 12>>), (<<<<"C">>, 12>>), (<<<<"A","A">>, 12>>)>>
  /\ call.comment = <<"[","r","o","w","o","v","e","r","f","l","o","w",":","A",",","C",",","A","A","=","1","2","]">>
  /\ call.returned[1] = call.overflow

(***************************************************************************)
(* C14  Range type of a formula.                                           *)
(***************************************************************************)
\* does the text name one of OFFSET(, INDIRECT(, INDEX( in any letter case
usesWindowFunction(t) ==
  \E fnName \in {L_OFFSET, L_INDIRECT, L_INDEX} : includes(toUpperCase(t), fnName)

\* the type the classification rule gives a formula
ruleRangeType(f) ==
  IF ~usesWindowFunction(f) THEN "fixed"
  ELSE IF /\ Len(splitFormulaTopLevel(stripLeadingEq(f))) > 1
          /\ \E k \in 1..Len(splitFormulaTopLevel(stripLeadingEq(f))) :
               usesWindowFunction(splitFormulaTopLevel(stripLeadingEq(f))[k])
  THEN "hybrid"
  ELSE "dynamic"

\* C14: detectRangeType (and the list's getRangeType) classify every formula
\* as fixed when it contains none of OFFSET(, INDIRECT(, INDEX(, as hybrid
\* when it is a union with a top-level comma in which at least one area uses
\* such a function, and as dynamic when it contains such a function but is
\* not such a union.
C14_RangeTypeRule ==
  /\ (call.fn = "detectRangeType" /\ call.returned # <<>>)
       => call.returned[1] = ruleRangeType(call.formula)
  /\ (call.fn = "getRangeType" /\ call.returned # <<>>)
       => call.returned[1] = ruleRangeType(call.n.formula)

\* a union whose second area is an INDEX call has been classified as dynamic
C14_UnionCalledDynamic ==
  /\ call.fn = "detectRangeType"
  /\ call.formula = <<"=","S","h","e","e","t","1","!","$","A","$","1",":","$","A","$","1","0",",","I","N","D","E","X","(","S","h","e","e","t","1","!","$","B",":","$","B",",","1",")">>
  /\ call.returned = <<"dynamic">>

\* a single call with a nested OFFSET argument has been classified as hybrid
C14_NestedCalledHybrid ==
  /\ call.fn = "detectRangeType"
  /\ call.formula = <<"=","S","U","M","(","S","h","e","e","t","1","!","$","A","$","1",",","O","F","F","S","E","T","(","S","h","e","e","t","1","!","$","B","$","1",",","0",",","0",",","2",",","2",")",")">>
  /\ call.returned = <<"hybrid">>

(***************************************************************************)
(* C15  Health classification.                                             *)
(***************************************************************************)
\* a returned call of buildExcelName
nameBuilt == call.fn = "buildExcelName" /\ call.returned # <<>>

\* (a): no address, and the formula is neither dynamic nor a union
unresolvedPlain ==
  /\ call.address = <<>>
  /\ ~usesWindowFunction(call.namedItem.formula)
  /\ Len(splitFormulaTopLevel(stripLeadingEq(call.namedItem.formula))) <= 1

\* C15 as stated: the status is broken if and only if (a) the address is
\* empty and the formula is neither a dynamic formula nor a multi-area union,
\* or (b) the resolved value is the reference-error sentinel #REF!, the
\* latter even when an address was returned; otherwise it is valid.
C15_HealthAsStated ==
  nameBuilt
    => /\ call.returned[1].status \in {"broken", "valid"}
       /\ call.returned[1].status = "broken"
            <=> \/ unresolvedPlain
                \/ /\ call.namedItem.value.type = "string"
                   /\ call.namedItem.value.text = REF_ERROR

\* is the value a string in which #REF! occurs, in any letter case
carriesRefError(v) ==
  /\ v.type = "string"
  /\ \E i \in 1..(Len(v.text) - Len(REF_ERROR) + 1) :
       toUpperCase(SubSeq(v.text, i, i + Len(REF_ERROR) - 1)) = REF_ERROR

\* C15 amended: the status is broken if and only if (a) holds or (b) the
\* resolved value is a string that contains #REF! in any letter case, the
\* latter even when an address was returned; otherwise it is valid.
C15_Health ==
  nameBuilt
    => /\ call.returned[1].status \in {"broken", "valid"}
       /\ call.returned[1].status = "broken"
            <=> (unresolvedPlain \/ carriesRefError(call.namedItem.value))

\* a name whose value is #REF! is broken although an address was returned
C15_Witness ==
  /\ nameBuilt
  /\ call.namedItem.value = [type |-> "string", text |-> REF_ERROR]
  /\ call.namedItem.formula = <<"=","S","h","e","e","t","1","!","$","A","$","1",":","$","D","$","1","0">>
  /\ call.address # <<>>
  /\ call.returned[1].status = "broken"

\* an unresolved dynamic formula is valid
C15_UnresolvedDynamicValid ==
  /\ nameBuilt
  /\ call.address = <<>>
  /\ call.namedItem.formula = <<"=","O","F","F","S","E","T","(","S","h","e","e","t","1","!","$","A","$","1",",","0",",","0",",","C","O","U","N","T","A","(","S","h","e","e","t","1","!","$","A",":","$","A",")",",","4",")">>
  /\ call.namedItem.value = [type |-> "number", num |-> 1000]
  /\ call.returned[1].status = "valid"

\* a value that contains the sentinel without being it makes the name broken
C15_ContainedSentinelBroken ==
  /\ nameBuilt
  /\ call.namedItem.value = [type |-> "string", text |-> <<"S","h","e","e","t","1","!","#","R","E","F","!">>]
  /\ call.address # <<>>
  /\ call.returned[1].status = "broken"

(***************************************************************************)
(* C16  Name validation.                                                   *)
(***************************************************************************)
\* the candidates the rule rejects
ruleRejects(n) ==
  \/ \A i \in 1..Len(n) : n[i] = " "
  \/ \E i \in 1..Len(n) : n[i] = " "
  \/ n[1] \in DigitSet
  \/ n[1] \notin LetterSet \cup {"_"}
  \/ \E i \in 1..Len(n) : n[i] \notin LetterSet \cup DigitSet \cup {"_", "."}
  \/ \E k \in 1..3 :
       /\ k < Len(n)
       /\ \A i \in 1..k : n[i] \in LetterSet
       /\ \A i \in (k + 1)..Len(n) : n[i] \in DigitSet

\* C16: validateName returns a non-empty error for every candidate that is
\* empty or blank, contains a blank, starts with a digit, does not start
\* with a letter or underscore, contains a character outside [A-Za-z0-9_.]
\* or has the shape of one to three letters followed only by digits, and
\* the empty string for every other candidate; the validator of the editor
\* and that of the range picker decide identically.
C16_ValidateName ==
  (call.fn = "validateName" /\ call.returned # <<>>)
    => /\ (call.returned[1] # "") <=> ruleRejects(call.n)
       /\ (editorValidateName(call.n) = "") <=> (pickerValidateName(call.n) = "")

\* the editor has accepted a name with a backslash
C16_BackslashAccepted ==
  /\ call.fn = "validateName"
  /\ call.component = "NameEditor"
  /\ call.n = <<"a","\\","b">>
  /\ call.returned = <<"">>

\* the picker has rejected the same name
C16_BackslashRejected ==
  /\ call.fn = "validateName"
  /\ call.component = "RangePicker"
  /\ call.n = <<"a","\\","b">>
  /\ call.returned = <<"Invalid characters">>

\* the rule as the picker's validator alone applies it
C16_PickerFollowsRule ==
  (call.fn = "validateName" /\ call.component = "RangePicker" /\ call.returned # <<>>)
    => (call.returned[1] # "") <=> ruleRejects(call.n)

(***************************************************************************)
(* C18  Parsing a range address.                                           *)
(***************************************************************************)
\* a call of one of the two parsers that is over
parserDone ==
  /\ call.fn \in {"parseRangeAddress", "parseRangeRef"}
  /\ (call.returned # <<>> \/ call.threw)

\* the range a parser returned, its rows read as numbers
returnedRange ==
  IF call.fn = "parseRangeAddress"
  THEN [sheet |-> call.returned[1].sheet,
        startCol |-> call.returned[1].startCol,
        startRow |-> call.returned[1].startRow,
        endCol |-> call.returned[1].endCol,
        endRow |-> call.returned[1].endRow]
  ELSE [sheet |-> call.returned[1].sheet,
        startCol |-> call.returned[1].startCol,
        startRow |-> digitsValue(call.returned[1].startRow, 0),
        endCol |-> call.returned[1].endCol,
        endRow |-> digitsValue(call.returned[1].endRow, 0)]

\* C18: the parser accepts every string of the form [Sheet!]ColRow[:ColRow]
\* (sheet part optional and optionally single-quoted, a '$' before any of the
\* four coordinates ignored) and returns the range it denotes, a single cell
\* as a range with start = end; for every other string it returns a failure
\* and does not throw.
C18_ParseAddress ==
  parserDone
    => /\ ~call.threw
       /\ call.range # <<>>
            => call.returned[1].ok /\ returnedRange = call.range[1]
       /\ call.range = <<>> => ~call.returned[1].ok

\* parseRangeAddress has thrown on a range without a sheet part
C18_SheetlessThrown ==
  /\ call.fn = "parseRangeAddress"
  /\ call.text = <<"A","1",":","B","2">>
  /\ call.threw

\* parseRangeRef has returned null for a single cell
C18_SingleCellNull ==
  /\ call.fn = "parseRangeRef"
  /\ call.text = <<"S","h","e","e","t","1","!","C","5">>
  /\ call.returned # <<>>
  /\ ~call.returned[1].ok

\* what the two parsers do: parseRangeAddress returns the range exactly of
\* the texts with a sheet part and throws on the others; parseRangeRef
\* returns the range exactly of the texts with two cells and null on the
\* others
C18_ParsersAsCoded ==
  parserDone
    => IF call.fn = "parseRangeAddress"
       THEN IF call.range # <<>> /\ call.range[1].sheet # <<>>
            THEN ~call.threw /\ returnedRange = call.range[1]
            ELSE call.threw
       ELSE /\ ~call.threw
            /\ IF call.range # <<>> /\ includes(call.text, <<":">>)
               THEN call.returned[1].ok /\ returnedRange = call.range[1]
               ELSE ~call.returned[1].ok

(***************************************************************************)
(* C20  Leading skip count.                                                *)
(***************************************************************************)
\* a returned call of topSkipCount or leftSkipCount
skipsCounted ==
  /\ call.fn \in {"topSkipCount", "leftSkipCount"}
  /\ call.returned # <<>>

\* the number of rows (columns) of the selection of the call
countedTotal ==
  IF call.fn = "topSkipCount"
  THEN call.selectionData.rowCount ELSE call.selectionData.colCount

\* C20: for every total and skip set the top (left) skip count is the length
\* k of the longest prefix 0, 1, ..., k-1 of indices that are all in the skip
\* set; skipped indices after the first active index never increase it: the
\* count is that of the skip set cut down to its indices below k.
C20_LeadingSkipCount ==
  skipsCounted
    => LET k == call.returned[1]
       IN /\ k \in 0..countedTotal
          /\ \A i \in 0..(k - 1) : i \in call.skipped
          /\ k < countedTotal => k \notin call.skipped
          /\ leadingSkipCount(countedTotal, call.skipped \cap (0..(k - 1)), 0) = k
          /\ \A later \in SUBSET ((k + 1)..(MaxTotal - 1)) :
               k < countedTotal
                 => leadingSkipCount(countedTotal, (call.skipped \cap (0..(k - 1))) \cup later, 0) = k

\* the skip set {0, 1, 3} over 5 rows has been counted as 2
C20_Witness ==
  /\ call.fn = "topSkipCount"
  /\ call.selectionData.rowCount = 5
  /\ call.skipped = {0, 1, 3}
  /\ call.returned = <<2>>


(***************************************************************************)
(* C17  Column codec round trip.                                           *)
(***************************************************************************)
\* a column text has been converted to its number and back
textRoundTrip == call.start = "col" /\ call.fn = "numToCol"

\* a number has been converted to its column text and back
numberRoundTrip == call.start = "num" /\ call.fn = "colToNum"

C17_NumberWitness ==
  /\ numberRoundTrip
  /\ call.num = 27
  /\ call.col = <<"A","A">>
  /\ call.returned = <<27>>

\* the lower-case text a has come back as AG
C17_LowerCaseLost ==
  /\ textRoundTrip
  /\ call.col = <<"a">>
  /\ call.num = 33
  /\ call.returned = << <<"A","G">> >>

(***************************************************************************)
(* C19  Selection grid invariant.                                          *)
(***************************************************************************)
\* the skip sets lie within the selection the picker holds
skipsWithinSelection ==
  picker.mounted
    => IF picker.selectionData.picked
       THEN /\ picker.skippedRows \subseteq 0..(picker.selectionData.rowCount - 1)
            /\ picker.skippedCols \subseteq 0..(picker.selectionData.colCount - 1)
       ELSE picker.skippedRows = {} /\ picker.skippedCols = {}

\* a successful pick replaces the selection and resets the skip sets, the
\* fixed boundary and the last-column flag
pickResets ==
  \A h \in HostSelections :
    (handlePick(h) /\ getSelectionData(h).picked)
      => /\ picker'.selectionData = getSelectionData(h)
         /\ picker'.skippedRows = {}
         /\ picker'.skippedCols = {}
         /\ picker'.fixedBoundary = 0
         /\ picker'.lastColOnly = FALSE

\* the indices whose membership differs between two sets
changedIndices(before, after) == (before \ after) \cup (after \ before)

\* a toggle changes the membership of exactly one index of its own set
togglesOneIndex ==
  /\ (\E i \in 0..MaxToggleIdx : toggleRowSkip(i))
       => /\ Cardinality(changedIndices(picker.skippedRows, picker'.skippedRows)) = 1
          /\ picker'.skippedCols = picker.skippedCols
          /\ picker'.selectionData = picker.selectionData
  /\ (\E i \in 0..MaxToggleIdx : toggleColSkip(i))
       => /\ Cardinality(changedIndices(picker.skippedCols, picker'.skippedCols)) = 1
          /\ picker'.skippedRows = picker.skippedRows
          /\ picker'.selectionData = picker.selectionData

\* the skip sets change in no other way: a step that changes one of them
\* changes one index of it or empties both
skipsChangeByToggleOrPick ==
  (picker.mounted /\ picker'.mounted
     /\ <<picker.skippedRows, picker.skippedCols>> # <<picker'.skippedRows, picker'.skippedCols>>)
    => \/ picker'.skippedRows = {} /\ picker'.skippedCols = {}
       \/ Cardinality(changedIndices(picker.skippedRows, picker'.skippedRows))
            + Cardinality(changedIndices(picker.skippedCols, picker'.skippedCols)) = 1

\* C19: after any sequence of picks and toggles skippedRows holds only
\* indices in [0, rowCount) and skippedCols only indices in [0, colCount) of
\* the selection the picker holds; every successful pick replaces the
\* selection and resets both skip sets, the fixed boundary and the
\* last-column flag; every toggle changes the membership of exactly one
\* index.
C19_SelectionGrid ==
  /\ []skipsWithinSelection
  /\ [][pickResets /\ togglesOneIndex /\ skipsChangeByToggleOrPick]_vars

\* rows and a column of the ten-row selection are skipped
C19_Witness ==
  /\ picker.mounted
  /\ picker.selectionData.picked
  /\ picker.selectionData.rowCount = 10
  /\ picker.selectionData.colCount = 4
  /\ picker.skippedRows = {0, 2}
  /\ picker.skippedCols = {1}

\* a smaller selection has been picked and is held with empty skip sets
C19_RepickedWitness ==
  /\ picker.mounted
  /\ picker.selectionData.picked
  /\ picker.selectionData.rowCount = 2
  /\ picker.skippedRows = {}
  /\ picker.skippedCols = {}
  /\ picker.fixedBoundary = 0

(***************************************************************************)
(* C21  Bulk delete of broken entries.                                     *)
(***************************************************************************)
\* the names getAllNames lists as broken in a workbook
listedBroken(wb) == { n \in wb.names : listedName(n).status = "broken" }

deleteBrokenReturns == tasks = NoTasks /\ tasks' # NoTasks

\* C21: every call of deleteBrokenNames removes exactly the names that
\* getAllNames classifies as broken in the state of the call, and returns
\* the number of names it removed.
C21_DeleteBroken ==
  [][deleteBrokenReturns =>
       /\ workbook.names \ workbook'.names = listedBroken(workbook)
       /\ tasks'.returned = <<Cardinality(workbook.names \ workbook'.names)>>]_vars

\* what the code does: the returned count is the number of names removed,
\* every removed name has the error value or no range, and no name with a
\* window formula is removed
C21_DeleteBrokenAsCoded ==
  [][deleteBrokenReturns =>
       /\ tasks'.returned = <<Cardinality(workbook.names \ workbook'.names)>>
       /\ \A n \in workbook.names \ workbook'.names :
            isBrokenValue(n.value) \/ n.range = <<>>
       /\ \A n \in workbook.names \ workbook'.names : ~isDynamicFormula(n.formula)]_vars

\* a name with a window formula and the error value is listed as broken
\* after the bulk delete has returned
C21_BrokenSurvives ==
  /\ tasks # NoTasks
  /\ home.names = <<getAllNamesOf(workbook)>>
  /\ \E l \in home.names[1] : l.status = "broken"

\* a union name the host resolves no range for was listed as valid and is gone
C21_ValidDeleted ==
  /\ tasks # NoTasks
  /\ home.names # <<>>
  /\ \E l \in home.names[1] :
       /\ l.status = "valid"
       /\ \A n \in workbook.names : n.name # l.name

(***************************************************************************)
(* C22  Frame of updateName on the comment.                                *)
(***************************************************************************)
\* the option fields a comment decodes to
decodedFields(c) ==
  [skipRows |-> parseSkipTag(c).skipRows, skipCols |-> parseSkipTag(c).skipCols,
   fixedRef |-> parseFixedRefTag(c), dynamicRef |-> parseDynamicRefTag(c),
   lastColOnly |-> parseLastColTag(c), lastRowOnly |-> parseLastRowTag(c),
   origRange |-> parseOrigRangeTag(c),
   expandRows |-> parseExpandRowsTag(c), expandCols |-> parseExpandColsTag(c),
   skippedColIndices |-> parseSkipColIndicesTag(c),
   skippedRowIndices |-> parseSkipRowIndicesTag(c),
   colOverflowByRow |-> parseColOverflowTag(c),
   rowOverflowByCol |-> parseRowOverflowTag(c)]

updateReturned == call.fn = "updateName" /\ call.returned # <<>>

\* the frame of one returned call: undefined fields decode as before, the
\* origin marker is kept as it was, the user text is the given one or the
\* prior one
updateFrame ==
  /\ \A f \in DOMAIN decodedFields(call.comment) :
       call.updates[f] = <<>>
         => decodedFields(call.returned[1])[f] = decodedFields(call.comment)[f]
  /\ includes(call.returned[1], EPIFAI_TAG) <=> includes(call.comment, EPIFAI_TAG)
  /\ stripMetaTags(call.returned[1])
       = givenOr(call.updates.comment, stripMetaTags(call.comment))

\* C22: updateName leaves every option field that updates does not set as
\* it decoded before, keeps the origin marker as it was, makes the user text
\* updates.comment when given and the stripped prior text otherwise; with no
\* field set, applying it twice writes the same comment as applying it once.
C22_UpdateFrame ==
  /\ updateReturned => updateFrame
  /\ (updateReturned /\ call.updates = NoUpdates /\ call.again # <<>>)
       => call.again[1] = call.returned[1]

\* the stored comment holds each tag at most once and the given user text
\* is trimmed and free of tags
tagsOnce ==
  /\ ~hasMetaTag(stripMetaTags(call.comment))
  /\ call.updates.comment # <<>>
       => /\ ~hasMetaTag(call.updates.comment[1])
          /\ trim(call.updates.comment[1]) = call.updates.comment[1]

\* on such comments the frame holds and a second call changes nothing
C22_FrameOnSingleTags ==
  /\ (updateReturned /\ tagsOnce) => updateFrame
  /\ (updateReturned /\ tagsOnce /\ call.again # <<>>) => call.again[1] = call.returned[1]

\* an update with no field set, applied twice to a comment with a repeated
\* tag, writes a different comment the second time
C22_SecondCallDiffers ==
  /\ updateReturned
  /\ call.updates = NoUpdates
  /\ call.again # <<>>
  /\ call.again[1] # call.returned[1]

\* the frame at work: a comment written by addName, one field updated
C22_FrameKept ==
  /\ updateReturned
  /\ call.comment = addNameComment([FullOptions EXCEPT !.comment = <<"T","o","t","a","l","s">>])
  /\ call.updates.skipRows = <<3>>
  /\ decodedFields(call.returned[1]).skipRows = 3
  /\ decodedFields(call.returned[1]).skipCols = 3
  /\ stripMetaTags(call.returned[1]) = <<"T","o","t","a","l","s">>

(***************************************************************************)
(* C23  An edit changes the edited record only.                            *)
(***************************************************************************)
\* the second sync of the updateName that handleSaveName called
saveWrites ==
  /\ home.shown
  /\ home.view = "edit"
  /\ tasks.save.stage = "loaded"
  /\ tasks'.save.stage = "done"

isEdited(n) == n.name = home.editTarget[1].name /\ n.scope = home.editTarget[1].scope

savedName == IF renames(tasks.save) THEN tasks.save.newName[1] ELSE tasks.save.name

\* C23: saving an edit changes only the host record with the name and the
\* scope of the edited record: every other record stays as it is, and the
\* record written or created has the scope of the edited record, so that a
\* renamed record keeps its scope.
C23_EditTargetsOne ==
  [][saveWrites =>
       /\ \A n \in workbook.names : ~isEdited(n) => n \in workbook'.names
       /\ \A n \in workbook'.names \ workbook.names :
            /\ n.scope = home.editTarget[1].scope
            /\ n.name = savedName]_vars

\* what the code does: the record written, deleted or created is the
\* workbook-scoped one with the edited record's name, whatever its scope
C23_EditsWorkbookScope ==
  [][saveWrites =>
       /\ \A n \in workbook.names :
            (n.name # tasks.save.name \/ n.scope # WORKBOOK_SCOPE) => n \in workbook'.names
       /\ \A n \in workbook'.names \ workbook.names :
            /\ n.scope = WORKBOOK_SCOPE
            /\ n.name = savedName
            /\ n.formula = tasks.save.refersTo[1]
            /\ n.comment = updateNameComment(tasks.save.oldRaw, tasks.save.updates)]_vars

\* the sheet-scoped Revenue was edited and the workbook-scoped Revenue was
\* rewritten, the sheet-scoped one being as before
C23_OtherScopeWritten ==
  /\ home.shown
  /\ home.editTarget # <<>>
  /\ home.editTarget[1].scope = "Sheet1"
  /\ tasks.save.stage = "done"
  /\ ~renames(tasks.save)
  /\ hasItem(workbook, <<"R","e","v","e","n","u","e">>, "Sheet1")
  /\ getItem(workbook, <<"R","e","v","e","n","u","e">>, "Sheet1").comment = <<"O","l","d"," ","r","e","f">>
  /\ hasItem(workbook, <<"R","e","v","e","n","u","e">>, WORKBOOK_SCOPE)
  /\ stripMetaTags(getItem(workbook, <<"R","e","v","e","n","u","e">>, WORKBOOK_SCOPE).comment) = <<"E","d","i","t","e","d">>

\* the sheet-scoped Revenue was renamed: a workbook-scoped Income exists
C23_RenamedIntoWorkbook ==
  /\ home.shown
  /\ home.editTarget # <<>>
  /\ home.editTarget[1].scope = "Sheet1"
  /\ tasks.save.stage = "done"
  /\ hasItem(workbook, <<"I","n","c","o","m","e">>, WORKBOOK_SCOPE)
  /\ hasItem(workbook, <<"R","e","v","e","n","u","e">>, "Sheet1")

(***************************************************************************)
(* C24  No lost update between two rewrites of one comment.                *)
(***************************************************************************)
\* both mutations have completed on the workbook-scoped Revenue, which is
\* still in the workbook under its name or its new name
bothDone ==
  /\ tasks.running
  /\ tasks.save.stage = "done"
  /\ tasks.other.stage = "done"
  /\ tasks.save.name = tasks.other.name
  /\ tasks.other.scope = WORKBOOK_SCOPE
  /\ hasItem(workbook, savedName, WORKBOOK_SCOPE)

finalComment == getItem(workbook, savedName, WORKBOOK_SCOPE).comment

reflectsSave ==
  /\ stripMetaTags(finalComment) = tasks.save.updates.comment[1]
  /\ tasks.save.updates.skipRows # <<>>
       => parseSkipTag(finalComment).skipRows = tasks.save.updates.skipRows[1]

reflectsOther ==
  IF tasks.other.fn = "updateName"
  THEN parseExpandRowsTag(finalComment)
  ELSE includes(finalComment, EPIFAI_TAG)

\* C24: when two comment-rewriting operations on the same named range have
\* both completed, in any interleaving of their syncs, the stored comment
\* reflects the changes of both.
C24_NoLostUpdate == bothDone => (reflectsSave /\ reflectsOther)

\* the save's text is stored and the claim's marker is not
C24_ClaimLost ==
  /\ bothDone
  /\ tasks.other.fn = "claimAsEpifai"
  /\ reflectsSave
  /\ ~includes(finalComment, EPIFAI_TAG)

\* the other update's field is stored and the save's text is not
C24_SaveLost ==
  /\ bothDone
  /\ tasks.other.fn = "updateName"
  /\ reflectsOther
  /\ ~reflectsSave

\* both changes are stored
C24_BothKept ==
  /\ bothDone
  /\ tasks.other.fn = "claimAsEpifai"
  /\ tasks.other.oldRaw = <<"n","o","t","e">>
  /\ reflectsSave
  /\ reflectsOther

(***************************************************************************)
(* C26  Delete confirmation.                                               *)
(***************************************************************************)
deleteIssued == tasks.running /\ tasks.delete.stage = "idle" /\ tasks'.delete.stage = "deleting"

deleteAttempted == tasks.running /\ tasks.delete.stage = "deleting" /\ tasks'.delete.stage # "deleting"

\* C26: the host delete is issued for a record only when the pending
\* confirmation is that record, by name and by scope; a click on another
\* record only arms the confirmation; the pending confirmation is cleared
\* after the delete attempt, succeeded or failed.
C26_DeleteConfirmation ==
  /\ [][deleteIssued =>
          /\ home.pendingDelete # <<>>
          /\ home.pendingDelete[1].name = tasks'.delete.name
          /\ home.pendingDelete[1].scope = tasks'.delete.scope]_vars
  /\ [][deleteAttempted => home'.pendingDelete = <<>>]_vars
  /\ [][(tasks.running /\ workbook'.names # workbook.names /\ tasks'.delete = tasks.delete)
          => Cardinality(workbook'.names) >= Cardinality(workbook.names)]_vars

\* what the code does: the pending confirmation has the name of the deleted
\* record; the clearing and the arming are as the claim states
C26_ConfirmationByName ==
  /\ [][deleteIssued =>
          /\ home.pendingDelete # <<>>
          /\ home.pendingDelete[1].name = tasks'.delete.name]_vars
  /\ [][deleteAttempted => home'.pendingDelete = <<>>]_vars
  /\ [][(tasks.running /\ home'.pendingDelete # home.pendingDelete /\ home'.pendingDelete # <<>>)
          => (workbook' = workbook /\ tasks' = tasks)]_vars

\* the delete runs for the sheet-scoped Revenue while the confirmation was
\* armed on the workbook-scoped one
C26_OtherScopeDeleted ==
  /\ tasks.running
  /\ tasks.delete.stage = "deleting"
  /\ home.pendingDelete # <<>>
  /\ home.pendingDelete[1].name = tasks.delete.name
  /\ home.pendingDelete[1].scope # tasks.delete.scope

\* the delete attempt failed and the confirmation is cleared
C26_FailedCleared ==
  /\ tasks.running
  /\ tasks.delete.stage = "failed"
  /\ home.pendingDelete = <<>>

(***************************************************************************)
(* C25  Stopping the selection polling.                                    *)
(***************************************************************************)
polling == tasks.running /\ tasks.fn = "onSelectionChange"

neverRepeats ==
  polling => \A i \in 1..(Len(tasks.delivered) - 1) : tasks.delivered[i] # tasks.delivered[i + 1]

\* C25: once the returned stop function has been called the callback is
\* never invoked again, even with a host read in flight, and while polling
\* the callback is never invoked twice in succession with the same address.
C25_StopSilences ==
  /\ [][(polling /\ ~tasks.active) => tasks'.delivered = tasks.delivered]_vars
  /\ []neverRepeats

\* what the code does: after the stop the callback is invoked at most once
\* more, by the read that was in flight, and no new read is started
C25_OneLateCallback ==
  /\ [][(polling /\ ~tasks.active)
          => /\ tasks.stage # "reading" => tasks'.stage # "reading"
             /\ tasks'.delivered # tasks.delivered => tasks.stage = "reading"]_vars
  /\ []neverRepeats

\* the loop terminates once stopped
C25_LoopExits == (polling /\ ~tasks.active) ~> (tasks.stage = "exited")

(***************************************************************************)
(* C27  Cleanup of the temporary names of an export.                       *)
(***************************************************************************)
exportFinished ==
  tasks.running /\ tasks.fn = "exportNameToSheet" /\ tasks.pc \in {"returned", "threw"}

temporaryNames == { n \in workbook.names : startsWithAt(n.name, 1, TEMP_PREFIX) }

\* C27: whenever exportNameToSheet has finished, by returning or by
\* throwing, under every pattern of host call failures, the workbook holds
\* no temporary name that the call created.
C27_TempNamesCleaned == exportFinished => temporaryNames = {}

\* what the code does: a temporary name is left only after a sync has
\* thrown, and every name left is one the call recorded in tempNames
C27_CleanedWhenHostServes ==
  exportFinished =>
    /\ tasks.thrown = 0 => temporaryNames = {}
    /\ \A n \in temporaryNames : \E j \in 1..Len(tasks.tempNames) : tasks.tempNames[j] = n.name

\* the export returned and a temporary name is in the workbook
C27_LeftAfterReturn ==
  /\ exportFinished
  /\ tasks.pc = "returned"
  /\ tasks.thrown = 1
  /\ temporaryNames # {}

\* the cleanup loop removed the temporary name of a part that threw
C27_CleanedByCatch ==
  /\ exportFinished
  /\ tasks.pc = "threw"
  /\ tasks.thrown = 1
  /\ tasks.tempNames # <<>>
  /\ ~tasks.noData
  /\ temporaryNames = {}

(***************************************************************************)
(* C28  Well-ordered hybrid output.                                        *)
(***************************************************************************)
\* the rows of the fixed area of f, of the height-count window of its
\* aggregate term, and of every anchored cell of f
fixedRows(f) == anchoredCells(areasOf(f)[1])

wellOrdered(f) ==
  /\ fixedRows(f)[1].row <= fixedRows(f)[2].row
  /\ heightWindow(f)[1].row <= heightWindow(f)[2].row
  /\ \A k \in 1..Len(anchoredCells(f)) : anchoredCells(f)[k].row <= MaxRowNum

\* C28: in every hybrid compile, of the editor with any skipRows >= 0 and of
\* the picker with any leading row skips, the start row of the fixed area is
\* at most its end row, the anchor row of the aggregate is at most the last
\* row of its height-count window, and no emitted row exceeds 1048576.
C28_WellOrderedHybrid ==
  /\ pickerSavedHybrid => wellOrdered(picker.saved[1].refersTo)
  /\ savedHybrid => wellOrdered(editor.saved[1].refersTo)

\* what the code does: with the skip inside the range (fewer rows skipped
\* than the range has) the output is well ordered
C28_WellOrderedWithinRange ==
  /\ (pickerSavedHybrid /\ leadingSkippedRows < picker.selectionData.rowCount)
       => wellOrdered(picker.saved[1].refersTo)
  /\ (savedHybrid /\ refStartRow + editor.skipRows <= refEndRow)
       => wellOrdered(editor.saved[1].refersTo)

\* the editor emits a fixed area that starts below its end
C28_EditorReversed ==
  /\ savedHybrid
  /\ editor.skipRows = 25
  /\ refEndRow = 10
  /\ fixedRows(editor.saved[1].refersTo)[1].row = 26
  /\ fixedRows(editor.saved[1].refersTo)[2].row = 10

\* the picker emits a fixed area that starts below its end: every row of
\* the selection is skipped
C28_PickerReversed ==
  /\ pickerSavedHybrid
  /\ fixedRows(picker.saved[1].refersTo)[1].row > fixedRows(picker.saved[1].refersTo)[2].row

\* a row beyond the last row of a sheet is emitted
C28_RowBeyondSheet ==
  /\ savedHybrid
  /\ fixedRows(editor.saved[1].refersTo)[1].row > MaxRowNum

(***************************************************************************)
(* C29  Sheet quoting in the editor's compilers.                           *)
(***************************************************************************)
\* the editor has saved a compile, dynamic or hybrid, of a reference that
\* parses with a sheet
savedWithSheet == (savedDynamic \/ savedHybrid) /\ editorParsed.sheet # <<>>

\* the sheet of the parsed reference needs quoting
needsQuoting == ~isPlainSheetName(editorParsed.sheet)

\* every "!" of f ends the text prefix, and f has one
everyPrefixIs(f, prefix) ==
  /\ \E i \in 1..Len(f) : f[i] = "!"
  /\ \A i \in 1..Len(f) : f[i] = "!" =>
       /\ i >= Len(prefix)
       /\ SubSeq(f, i - Len(prefix) + 1, i) = prefix
       /\ (i > Len(prefix) => f[i - Len(prefix)] \in {"=", "(", ":", ","})

\* C29: when the sheet of the parsed reference is not a plain identifier,
\* every sheet prefix in the formula the editor saves, dynamic or hybrid, is
\* the single-quoted form the picker's sheetPrefix produces for that sheet.
C29_EditorQuotesSheet ==
  (savedWithSheet /\ needsQuoting)
    => everyPrefixIs(editor.saved[1].refersTo, sheetPrefix(editorParsed.sheet))

\* what the code does: every prefix is the parsed sheet followed by "!",
\* which is the picker's prefix exactly when the sheet needs no quoting
C29_EditorPrefixAsParsed ==
  savedWithSheet =>
    /\ everyPrefixIs(editor.saved[1].refersTo, editorParsed.sheet \o <<"!">>)
    /\ (~needsQuoting =>
          everyPrefixIs(editor.saved[1].refersTo, sheetPrefix(editorParsed.sheet)))

\* the dynamic compile of a quoted sheet has lost the quotes
C29_DynamicUnquoted ==
  /\ savedDynamic
  /\ editor.refersTo = <<"'","M","y"," ","S","h","e","e","t","'","!","B","2",":","C","5">>
  /\ startsWithAt(editor.saved[1].refersTo, 1, <<"=","O","F","F","S","E","T","(","M","y"," ","S","h","e","e","t","!","$","B","$">>)

\* the hybrid compile of a quoted sheet has lost the quotes
C29_HybridUnquoted ==
  /\ savedHybrid
  /\ editor.refersTo = <<"'","M","y"," ","S","h","e","e","t","'","!","B","2",":","C","5">>
  /\ editor.skipRows = 0
  /\ startsWithAt(editor.saved[1].refersTo, 1, <<"=","(","M","y"," ","S","h","e","e","t","!","$","B","$","2",":","$","B","$","5",",","O","F","F","S","E","T","(","M","y"," ","S","h","e","e","t","!","$","C","$","2",",">>)

\* the compile of a plain sheet carries the picker's prefix
C29_PlainSheetKept ==
  /\ savedHybrid
  /\ editorParsed.sheet = <<"S","h","e","e","t","1">>
  /\ startsWithAt(editor.saved[1].refersTo, 1, <<"=","(","S","h","e","e","t","1","!","$">>)

(***************************************************************************)
(* C30  Names derived from charts.                                         *)
(***************************************************************************)
sanitizeReturned == call.fn = "sanitizeChartTitle" /\ call.returned # <<>>

\* createNameFromChart has passed a name to addName
chartNameAdded ==
  /\ call.fn = "createNameFromChart"
  /\ call.returned # <<>>
  /\ ~call.returned[1].threw

\* name differs, whatever the case of the letters, from every name of names
differsFromAll(name, names) ==
  \A i \in 1..Len(names) : toLowerCase(names[i]) # toLowerCase(name)

\* name is base, or base followed by "_" and a suffix from 2 to most
suffixedWithin(name, base, most) ==
  name = base \/ \E k \in 2..most : name = base \o <<"_">> \o numStr(k)

\* C30: sanitizeChartTitle returns a non-empty string over [A-Za-z0-9_.\]
\* that starts with a letter, an underscore or a backslash, and the name
\* createNameFromChart passes to addName differs, case-insensitively, from
\* every name of the workbook read at the start of the call.
C30_ChartNameValidUnique ==
  /\ sanitizeReturned =>
       /\ call.returned[1] # <<>>
       /\ call.returned[1][1] \in LetterSet \cup {"_", "\\"}
       /\ \A i \in 1..Len(call.returned[1]) : call.returned[1][i] \in ChartNameChars
  /\ chartNameAdded => differsFromAll(call.returned[1].rangeName, call.names)

\* what the code does: the result is non-empty, over the class, and neither
\* starts nor ends with an underscore; the name passed to addName is new and
\* is the base name or the base name with a suffix of at most one more than
\* the number of names
C30_ChartNameAsCoded ==
  /\ sanitizeReturned =>
       /\ call.returned[1] # <<>>
       /\ call.returned[1][1] # "_"
       /\ call.returned[1][Len(call.returned[1])] # "_"
       /\ \A i \in 1..Len(call.returned[1]) : call.returned[1][i] \in ChartNameChars
  /\ chartNameAdded =>
       /\ differsFromAll(call.returned[1].rangeName, call.names)
       /\ suffixedWithin(call.returned[1].rangeName,
                         sanitizeChartTitle(chartTitleOf(call.titleText, call.fallbackTitle)),
                         Len(call.names) + 1)

\* a title that starts with a digit gives a name that starts with a digit
C30_StartsWithDigit ==
  /\ sanitizeReturned
  /\ call.title = <<"2","0","2","4"," ","S","a","l","e","s">>
  /\ call.returned[1] = <<"2","0","2","4","_","S","a","l","e","s">>

\* a title that starts with a dot gives a name that starts with a dot
C30_StartsWithDot ==
  /\ sanitizeReturned
  /\ call.title = <<".","a">>
  /\ call.returned[1] = <<".","a">>

\* the suffix search passes two taken names, of other case, and ends
C30_SuffixFound ==
  /\ chartNameAdded
  /\ call.titleText = <<"_","_","_">>
  /\ call.fallbackTitle = <<"C","h","a","r","t"," ","1">>
  /\ call.names = << <<"c","h","a","r","t","n","a","m","e">>, <<"C","H","A","R","T","N","A","M","E","_","2">>, <<"C","h","a","r","t","N","a","m","e","_","3">>, <<"C","h","a","r","t","_","1">> >>
  /\ call.returned[1].rangeName = <<"C","h","a","r","t","N","a","m","e","_","4">>

\* a title of one word is kept and is new
C30_TitleKept ==
  /\ chartNameAdded
  /\ call.titleText = <<"S","a","l","e","s"," ","C","h","a","r","t">>
  /\ call.names = <<>>
  /\ call.returned[1].rangeName = <<"S","a","l","e","s","_","C","h","a","r","t">>

====
